---------------------------- MODULE Spec2Model ----------------------------
(***************************************************************************)
(* A model of inferno's training core (src/inferno/net.py):                *)
(*   - History, the nested training log, with its write methods and its   *)
(*     multi-axis __getitem__ (SpecHistory);                               *)
(*   - the callback registration of NeuralNet (_yield_callbacks and        *)
(*     initialize_callbacks) (SpecCallbacks);                              *)
(*   - the orchestrator NeuralNet: initialize, fit, partial_fit, fit_loop  *)
(*     and notify (Spec).                                                  *)
(***************************************************************************)
EXTENDS Integers, Sequences, FiniteSets, TLC

VARIABLES
    history,        \* the History: a list of epoch dicts
    herr,           \* outcome of the last History call: "none" or the exception raised
    log,            \* history variable: the Epoch Records denoted by the calls so far
    lastOp,         \* the last History method called
    ncalls,         \* number of History calls made so far
    default_callbacks,  \* the class attribute default_callbacks
    callbacks,      \* the constructor argument callbacks (None is the empty list)
    callbacks_,     \* the initialized callbacks, <<>> while the attribute is not set
    cberr,          \* outcome of the last initialize_callbacks call
    cbdone,         \* initialize_callbacks was called
    cold_start,     \* constructor argument cold_start
    max_epochs,     \* constructor argument max_epochs
    nTrain,         \* mini-batches the training iterator yields per epoch
    nValid,         \* mini-batches the validation iterator yields (0: X_valid is None)
    module,         \* constructor argument module: "type" or "instance"
    lr,             \* constructor argument lr
    attrs,          \* the other attributes of __dict__ that were given as keywords
    kwargs,         \* the keyword arguments of the last constructor or set_params call
    nparam,         \* number of set_params calls made
    module_,        \* the attribute module_, NoModule while it does not exist
    optim_,         \* the attribute optim_, NoOptimizer while it does not exist
    criterion_,     \* the attribute criterion_, NoObject while it does not exist
    learned,        \* which module objects hold learned parameters
    inits,          \* history variable: the initialize_* methods the last call ran
    initialized_,   \* the attribute initialized_
    pc,             \* where the running call stands ("idle": no call is running)
    hook,           \* the method_name of the notification in progress
    train,          \* the train flag of the batch being processed
    rcv,            \* notify: the receiver invoked next (0: the net itself)
    epoch,          \* fit_loop: the loop variable epoch
    batch,          \* fit_loop: mini-batches of the current iterator already done
    exc,            \* the exception the last call ended with, "none" if it returned
    lastCall,       \* the public method called last
    ncall,          \* number of fit / partial_fit calls made
    nfault,         \* number of exceptions raised so far
    notified,       \* history variable: receivers invoked by the current notification
    nid,            \* history variable: notifications started in the current call
    raised,         \* history variable: the last exception raised by a callback hook
    appended,       \* history variable: Epoch Records appended in the current call
    interrupted,    \* history variable: a KeyboardInterrupt was raised in fit_loop in this call
    trainHooks,     \* history variable: on_train_begin / on_train_end notified in the call
    nsteps,         \* history variable: training steps completed in the current call
    prior,          \* history variable: the public call before the current one
    estimator,      \* the class of the net: NeuralNet, NeuralNetClassifier, NeuralNetRegressor
    iterator_train, \* constructor argument iterator_train: "DataLoader" or "custom"
    yarg,           \* the y the caller passes to fit and partial_fit: "none", "1d" or "2d"
    cv,             \* the splits the generator of train_split yields, <<>> without train_split
    proba,          \* what predict_proba returns for the X the caller passes to predict
    split,          \* fit_loop: the subsets in use, as their numbers of mini-batches
    out,            \* what the last predict call returned
    trace           \* history variable: what the current call did, in order

histVars == <<history, herr, log, lastOp, ncalls>>

histVarsRest == <<herr, log, lastOp, ncalls>>

cbVars == <<default_callbacks, callbacks, callbacks_, cberr, cbdone>>

dataCfg == <<estimator, iterator_train, yarg, cv, proba>>

cfgVars == <<cold_start, max_epochs, nTrain, nValid, module, lr, attrs, kwargs, nparam,
             dataCfg>>

callVars == <<prior, out>>

objVars == <<module_, optim_, criterion_, learned, inits>>

fitGhost == <<trainHooks, nsteps, trace>>

ctlVars == <<pc, hook, train, rcv, epoch, batch, split>>

ghostVars == <<notified, nid, raised, appended, interrupted>>

netVars == <<cold_start, max_epochs, nTrain, nValid, module, lr, attrs, kwargs, nparam,
             module_, optim_, criterion_, learned, inits, initialized_,
             pc, hook, train, rcv, epoch, batch, exc, lastCall, ncall, nfault,
             notified, nid, raised, appended, interrupted, trainHooks, nsteps, prior,
             estimator, iterator_train, yarg, cv, proba, split, out, trace>>

vars == <<history, herr, log, lastOp, ncalls,
          default_callbacks, callbacks, callbacks_, cberr, cbdone,
          cold_start, max_epochs, nTrain, nValid, module, lr, attrs, kwargs, nparam,
          module_, optim_, criterion_, learned, inits, initialized_,
          pc, hook, train, rcv, epoch, batch, exc, lastCall, ncall, nfault,
          notified, nid, raised, appended, interrupted, trainHooks, nsteps, prior,
          estimator, iterator_train, yarg, cv, proba, split, out, trace>>

(***************************************************************************)
(* Bounds of the History model.                                            *)
(***************************************************************************)
MaxCalls == 7

Keys == {"train_loss", "valid_loss"}

Values == {1, 2}

(***************************************************************************)
(* Python dicts: functions from a finite set of keys to values.            *)
(***************************************************************************)
EmptyDict == [k \in {} |-> 0]

SetKey(d, k, v) == [x \in (DOMAIN d) \cup {k} |-> IF x = k THEN v ELSE d[x]]

(***************************************************************************)
(* An epoch dict {'batches': [...], key: value, ...} is kept as the record *)
(* of its 'batches' list and of its other keys (cols).  'batches' is the   *)
(* reserved key: record() is only ever called with the other keys.         *)
(***************************************************************************)
NewEpochRecord == [cols |-> EmptyDict, batches |-> <<>>]

\* list.append at the wrong end
NewEpochPrepend(h) == <<NewEpochRecord>> \o h

\* History.new_epoch: self.append({'batches': []})
NewEpoch(h) == Append(h, NewEpochRecord)

\* History.new_batch: self[-1] raises IndexError on an empty list
NewBatchRaises(h) == Len(h) = 0

\* a new_batch that registers the batch row with the first epoch
NewBatchFirst(h) == [h EXCEPT ![1].batches = Append(@, EmptyDict)]

\* History.new_batch: self[-1]['batches'].append({})
NewBatch(h) == [h EXCEPT ![Len(h)].batches = Append(@, EmptyDict)]

\* a record without its assertion
RecordNeverRaises(h) == FALSE

\* History.record: assert len(self) > 0
RecordRaises(h) == Len(h) = 0

\* History.record: self[-1][attr] = value
Record(h, attr, value) == [h EXCEPT ![Len(h)].cols = SetKey(@, attr, value)]

\* History.record_batch: self[-1] or self[-1]['batches'][-1] raises IndexError
RecordBatchRaises(h) == Len(h) = 0 \/ Len(h[Len(h)].batches) = 0

\* a record_batch that also sets the key on the epoch
RecordBatchEpochLevel(h, attr, value) ==
    LET e == Len(h)
        b == Len(h[e].batches)
    IN  [h EXCEPT ![e].batches[b] = SetKey(@, attr, value),
                  ![e].cols = SetKey(@, attr, value)]

\* a record_batch that keeps the first value written under a key
RecordBatchFirstWins(h, attr, value) ==
    LET e == Len(h)
        b == Len(h[e].batches)
    IN  IF attr \in DOMAIN h[e].batches[b] THEN h
        ELSE [h EXCEPT ![e].batches[b] = SetKey(@, attr, value)]

\* History.record_batch: self[-1]['batches'][-1][attr] = value
RecordBatch(h, attr, value) ==
    LET e == Len(h)
        b == Len(h[e].batches)
    IN  [h EXCEPT ![e].batches[b] = SetKey(@, attr, value)]

(***************************************************************************)
(* Python values as they flow through History.__getitem__: scalars, lists, *)
(* dicts, tuples, the __missingno marker (holding the KeyError's key) and  *)
(* a raised exception.                                                     *)
(***************************************************************************)
S(x) == [t |-> "scalar", v |-> x]

L(s) == [t |-> "list", v |-> s]

D(f) == [t |-> "dict", v |-> f]

T(s) == [t |-> "tuple", v |-> s]

\* __missingno(e), e = KeyError(k)
Missingno(k) == [t |-> "missingno", v |-> k]

Raise(ex, arg) == [t |-> "raise", v |-> <<ex, arg>>]

IsRaise(x) == x.t = "raise"

(***************************************************************************)
(* Index items: an int, the slice ':', a key (str) and a tuple of keys.    *)
(***************************************************************************)
I(n) == [t |-> "int", v |-> n]

Sl == [t |-> "slice", v |-> 0]

K(k) == [t |-> "str", v |-> k]

Tup(parts) == [t |-> "tuple", v |-> parts]

RECURSIVE Eq(_, _)
\* Python's == on these values: same type and equal contents
Eq(x, y) ==
    /\ x.t = y.t
    /\ CASE x.t \in {"list", "tuple"} ->
                /\ Len(x.v) = Len(y.v)
                /\ \A i \in 1..Len(x.v) : Eq(x.v[i], y.v[i])
         [] x.t = "dict" ->
                /\ DOMAIN x.v = DOMAIN y.v
                /\ \A k \in DOMAIN x.v : Eq(x.v[k], y.v[k])
         [] OTHER -> x.v = y.v

\* the first element of seq satisfying the test (seq holds one)
FirstOfType(seq, ty) ==
    seq[CHOOSE i \in 1..Len(seq) :
            /\ seq[i].t = ty
            /\ \A j \in 1..(i - 1) : seq[j].t # ty]

HasType(seq, ty) == \E i \in 1..Len(seq) : seq[i].t = ty

\* a list built by a comprehension: an exception raised for an element
\* propagates out of the comprehension
ListOf(seq) == IF HasType(seq, "raise") THEN FirstOfType(seq, "raise") ELSE L(seq)

\* the batch dict as a value
BatchVal(b) == D([k \in DOMAIN b |-> S(b[k])])

\* the epoch dict as a value, 'batches' being one of its keys
EpochVal(e) ==
    D([k \in (DOMAIN e.cols) \cup {"batches"} |->
          IF k = "batches"
          THEN L([i \in 1..Len(e.batches) |-> BatchVal(e.batches[i])])
          ELSE S(e.cols[k])])

\* the History (a list subclass) as a value
HistVal(h) == L([i \in 1..Len(h) |-> EpochVal(h[i])])

\* list.__getitem__(int) without the wrap-around of negative indices
ListIndexNoWrap(s, n) ==
    IF n >= 0 /\ n < Len(s) THEN s[n + 1] ELSE Raise("IndexError", "list")

\* list.__getitem__(int): negative indices count from the end
ListIndex(s, n) ==
    IF n >= 0 /\ n < Len(s) THEN s[n + 1]
    ELSE IF n < 0 /\ -n <= Len(s) THEN s[Len(s) + n + 1]
    ELSE Raise("IndexError", "list")

\* partial_index, lines 145-148: try: return l[idx]; except KeyError as e:
\* return __missingno(e).  IndexError and TypeError are not caught.
Subscript(l, idx) ==
    CASE l.t = "list" /\ idx.t = "int" -> ListIndex(l.v, idx.v)
      [] l.t = "list" /\ idx.t = "slice" -> L(l.v)
      [] l.t = "tuple" /\ idx.t = "int" -> ListIndex(l.v, idx.v)
      [] l.t = "tuple" /\ idx.t = "slice" -> T(l.v)
      [] l.t = "dict" /\ idx.t = "str" ->
            IF idx.v \in DOMAIN l.v THEN l.v[idx.v] ELSE Missingno(idx.v)
      [] l.t = "dict" /\ idx.t = "int" -> Missingno(ToString(idx.v))
      [] OTHER -> Raise("TypeError", l.t)

\* incomplete_mapper that lets incomplete tuples through
IncompleteMapperKeep(x) == x

\* incomplete_mapper, lines 131-135: the first __missingno of the tuple, else
\* the tuple
IncompleteMapper(x) ==
    IF HasType(x.v, "missingno") THEN FirstOfType(x.v, "missingno") ELSE x

\* zip(*zz) for lists zz[j] (it stops at the shortest), then
\* incomplete_mapper on every tuple
InnerJoin(zz) ==
    LET n == IF Len(zz) = 0 THEN 0
             ELSE CHOOSE m \in {Len(zz[j].v) : j \in 1..Len(zz)} :
                      \A j \in 1..Len(zz) : m <= Len(zz[j].v)
    IN  L([i \in 1..n |-> IncompleteMapper(T([j \in 1..Len(zz) |-> zz[j].v[i]]))])

RECURSIVE PartialIndex(_, _)
\* partial_index, lines 118-148
PartialIndex(l, idx) ==
    LET is_list == l.t = "list"
        needs_unrolling == is_list /\ Len(l.v) > 0 /\ l.v[1].t = "list"
        needs_indirection == is_list /\ idx.t \notin {"int", "tuple", "slice"}
    IN  IF needs_unrolling \/ needs_indirection
        THEN ListOf([i \in 1..Len(l.v) |-> PartialIndex(l.v[i], idx)])
        ELSE IF idx.t = "tuple"
        THEN LET zz == [j \in 1..Len(idx.v) |-> PartialIndex(l, idx.v[j])]
             IN  IF HasType(zz, "raise") THEN FirstOfType(zz, "raise")
                 ELSE IF is_list THEN InnerJoin(zz)
                 ELSE IncompleteMapper(T(zz))
        ELSE Subscript(l, idx)

\* filter(lambda x: type(x) != __missingno, children)
NotMissing(x) == x.t # "missingno"

RECURSIVE FilterMissingKeepEmpty(_)
\* a filter_missing without lines 155-156: an emptied level stays an empty list
FilterMissingKeepEmpty(x) ==
    IF x.t = "list"
    THEN L(SelectSeq([i \in 1..Len(x.v) |-> FilterMissingKeepEmpty(x.v[i])], NotMissing))
    ELSE x

RECURSIVE FilterMissing(_)
\* filter_missing, lines 150-158
FilterMissing(x) ==
    IF x.t = "list"
    THEN LET children == [i \in 1..Len(x.v) |-> FilterMissing(x.v[i])]
             filtered == SelectSeq(children, NotMissing)
         IN  IF Len(children) > 0 /\ Len(filtered) = 0
             THEN FirstOfType(children, "missingno")
             ELSE L(filtered)
    ELSE x

RECURSIVE GetItemParts(_, _)
\* History.__getitem__, lines 160-167: the loop over the parts of a tuple
GetItemParts(x, parts) ==
    IF parts = <<>> THEN x
    ELSE LET x_dirty == PartialIndex(x, Head(parts))
         IN  IF IsRaise(x_dirty) THEN x_dirty
             ELSE LET y == FilterMissing(x_dirty)
                  IN  IF y.t = "missingno" THEN Raise("KeyError", y.v)
                      ELSE GetItemParts(y, Tail(parts))

\* History.__getitem__, lines 108-169
GetItem(h, i) ==
    CASE i.t \in {"int", "slice"} -> Subscript(HistVal(h), i)
      [] i.t = "tuple" -> GetItemParts(HistVal(h), i.v)
      [] OTHER -> Raise("ValueError", "index")

(***************************************************************************)
(* The History on its own: any sequence of calls of its four write         *)
(* methods.  log is the history variable of the calls: the Epoch Record    *)
(* opened by the n-th new_epoch call is log[n], the batch opened by the    *)
(* m-th new_batch call since then is log[n].batches[m], and every key      *)
(* holds the value of its last write.                                      *)
(***************************************************************************)
HistoryFresh ==
    /\ history = <<>>
    /\ herr = "none"
    /\ log = <<>>
    /\ lastOp = "init"
    /\ ncalls = 0

NoRaise == [nid |-> 0, rcv |-> 0, kind |-> "none"]

\* an attribute module_ that does not exist; obj is "module" when module_
\* is the very object given as module, "new" when initialize_module made it
NoModule == [obj |-> "unset", kwargs |-> EmptyDict]

\* an attribute criterion_ that does not exist
NoObject == [set |-> FALSE, kwargs |-> EmptyDict]

\* an attribute optim_ that does not exist; params tells whose parameters
\* an optimizer holds: "module_" for those of the object module_ refers to,
\* "replaced" for those of an object module_ no longer refers to
NoOptimizer == [set |-> FALSE, kwargs |-> EmptyDict, params |-> "none"]

\* fit_loop has not assigned X_train and X_valid
NoSplit == [train |-> 0, valid |-> 0]

\* no predict call has returned
NoOutput == [shape |-> "none", data |-> <<>>]

\* the attributes and the history variables before any call
NetRest ==
    /\ initialized_ = FALSE
    /\ hook = ""
    /\ train = FALSE
    /\ rcv = 0
    /\ epoch = 0
    /\ batch = 0
    /\ exc = "none"
    /\ lastCall = "__init__"
    /\ ncall = 0
    /\ nfault = 0
    /\ notified = <<>>
    /\ nid = 0
    /\ raised = NoRaise
    /\ appended = 0
    /\ interrupted = FALSE
    /\ module_ = NoModule
    /\ optim_ = NoOptimizer
    /\ criterion_ = NoObject
    /\ learned = [given |-> FALSE, own |-> FALSE]
    /\ inits = <<>>
    /\ trainHooks = <<>>
    /\ nsteps = 0
    /\ prior = [call |-> "__init__", clean |-> TRUE, inits |-> <<>>]
    /\ split = NoSplit
    /\ out = NoOutput
    /\ trace = <<>>

\* the base class with the default iterator, called with a two-dimensional
\* y; train_split yields one split, of nTrain and nValid mini-batches, and
\* is None when nValid is 0
DataDefault ==
    /\ estimator = "NeuralNet"
    /\ iterator_train = "DataLoader"
    /\ yarg = "2d"
    /\ cv = IF nValid > 0 THEN <<[train |-> nTrain, valid |-> nValid]>> ELSE <<>>
    /\ proba = <<>>

\* the orchestrator as constructed with the defaults, no call running
NetFresh ==
    /\ pc = "idle"
    /\ NetRest
    /\ DataDefault

\* lr=0.01 in the signature of __init__; the model's values are 1 and 2
DefaultLr == 1

\* the module given as a type and no keyword besides the declared ones
CfgDefault ==
    /\ module = "type"
    /\ lr = DefaultLr
    /\ attrs = EmptyDict
    /\ kwargs = EmptyDict
    /\ nparam = 0

InitHistory ==
    /\ HistoryFresh
    /\ default_callbacks = <<>>
    /\ callbacks = <<>>
    /\ callbacks_ = <<>>
    /\ cberr = <<"none", "">>
    /\ cbdone = FALSE
    /\ cold_start = TRUE
    /\ max_epochs = 0
    /\ nTrain = 0
    /\ nValid = 0
    /\ CfgDefault
    /\ NetFresh

Called(op) ==
    /\ UNCHANGED cbVars
    /\ UNCHANGED netVars
    /\ ncalls < MaxCalls
    /\ ncalls' = ncalls + 1
    /\ lastOp' = op

HNewEpoch ==
    /\ Called("new_epoch")
    /\ history' = NewEpoch(history)
    /\ herr' = "none"
    /\ log' = log \o <<[cols |-> EmptyDict, batches |-> <<>>]>>

HNewBatch ==
    /\ Called("new_batch")
    /\ IF NewBatchRaises(history)
       THEN /\ herr' = "IndexError"
            /\ UNCHANGED history
       ELSE /\ herr' = "none"
            /\ history' = NewBatch(history)
    /\ log' = IF log = <<>> THEN log
              ELSE [log EXCEPT ![Len(log)].batches = @ \o <<EmptyDict>>]

HRecord ==
    \E attr \in Keys, value \in Values :
        /\ Called("record")
        /\ IF RecordRaises(history)
           THEN /\ herr' = "AssertionError"
                /\ UNCHANGED history
           ELSE /\ herr' = "none"
                /\ history' = Record(history, attr, value)
        /\ log' = IF log = <<>> THEN log
                  ELSE [log EXCEPT ![Len(log)].cols = SetKey(@, attr, value)]

HRecordBatch ==
    \E attr \in Keys, value \in Values :
        /\ Called("record_batch")
        /\ IF RecordBatchRaises(history)
           THEN /\ herr' = "IndexError"
                /\ UNCHANGED history
           ELSE /\ herr' = "none"
                /\ history' = RecordBatch(history, attr, value)
        /\ log' = IF log = <<>> \/ log[Len(log)].batches = <<>> THEN log
                  ELSE [log EXCEPT ![Len(log)].batches[Len(log[Len(log)].batches)] =
                                       SetKey(@, attr, value)]

NextHistory == HNewEpoch \/ HNewBatch \/ HRecord \/ HRecordBatch

SpecHistory == InitHistory /\ [][NextHistory]_vars

(***************************************************************************)
(* C1.  Epoch Records are append-only: there are as many as new_epoch      *)
(* calls, a step never removes, moves or changes a record before the       *)
(* latest one, and history[-1] is the record of the last new_epoch call    *)
(* with all of its batches.                                                *)
(***************************************************************************)
C1_AppendOnly ==
    /\ [](/\ Len(history) = Len(log)
          /\ log # <<>> => Eq(GetItem(history, I(-1)), EpochVal(log[Len(log)])))
    /\ [][/\ Len(history') >= Len(history)
          /\ \A i \in 1..(Len(history) - 1) : history'[i] = history[i]]_vars

C1_Witness ==
    /\ Len(log) = 2
    /\ Len(log[1].batches) = 1
    /\ Len(log[2].batches) = 1
    /\ "train_loss" \in DOMAIN log[2].batches[1]
    /\ Eq(GetItem(history, I(-1)), EpochVal(log[2]))

(***************************************************************************)
(* C2.  Round trip: the value last written under 'train_loss' in batch b   *)
(* of epoch e is what history[e-1, 'batches', b-1, 'train_loss'] returns,  *)
(* whatever was added since.                                               *)
(***************************************************************************)
C2_RoundTrip ==
    \A e \in 1..Len(log) : \A b \in 1..Len(log[e].batches) :
        "train_loss" \in DOMAIN log[e].batches[b] =>
            Eq(GetItem(history, Tup(<<I(e - 1), K("batches"), I(b - 1), K("train_loss")>>)),
               S(log[e].batches[b]["train_loss"]))

C2_Witness ==
    /\ Len(history) = 2
    /\ Len(history[1].batches) = 2
    /\ Eq(GetItem(history, Tup(<<I(0), K("batches"), I(0), K("train_loss")>>)), S(2))

(***************************************************************************)
(* C3.  history[:, (k1, k2)] is the list, in epoch order, of the tuples    *)
(* (value of k1, value of k2) of the epochs holding both keys; when there  *)
(* are epochs and none holds both, it raises the KeyError of a key that    *)
(* an epoch misses.                                                        *)
(***************************************************************************)
EpochsWith(h, ks) ==
    LET HasAll(e) == ks \subseteq DOMAIN e.cols
    IN  SelectSeq(h, HasAll)

C3_MultiColumn ==
    \A k1 \in Keys, k2 \in Keys :
        LET q == GetItem(history, Tup(<<Sl, Tup(<<K(k1), K(k2)>>)>>))
            sel == EpochsWith(history, {k1, k2})
        IN  IF sel # <<>>
            THEN Eq(q, L([i \in 1..Len(sel) |->
                            T(<<S(sel[i].cols[k1]), S(sel[i].cols[k2])>>)]))
            ELSE history # <<>> =>
                    /\ IsRaise(q)
                    /\ q.v[1] = "KeyError"
                    /\ q.v[2] \in {k1, k2}
                    /\ \E i \in 1..Len(history) : q.v[2] \notin DOMAIN history[i].cols

C3_Witness ==
    /\ Len(history) = 2
    /\ DOMAIN history[1].cols = {"train_loss"}
    /\ DOMAIN history[2].cols = {"train_loss", "valid_loss"}
    /\ Eq(GetItem(history, Tup(<<Sl, Tup(<<K("train_loss"), K("valid_loss")>>)>>)),
          L(<<T(<<S(1), S(2)>>)>>))

(***************************************************************************)
(* C4.  history[:, key] is the list, in epoch order, of the values of key  *)
(* in the epochs holding it, and raises KeyError when no epoch holds it.   *)
(***************************************************************************)
C4_SingleColumn ==
    \A k \in Keys :
        LET q == GetItem(history, Tup(<<Sl, K(k)>>))
            sel == EpochsWith(history, {k})
        IN  IF sel = <<>>
            THEN IsRaise(q) /\ q.v[1] = "KeyError"
            ELSE Eq(q, L([i \in 1..Len(sel) |-> S(sel[i].cols[k])]))

(***************************************************************************)
(* C5.  On a History without Epoch Record, record() and new_batch() fail   *)
(* and leave it empty.                                                     *)
(***************************************************************************)
C5_EmptyHistoryFails ==
    [][(history = <<>> /\ lastOp' \in {"record", "new_batch"}) =>
          /\ herr' = (IF lastOp' = "record" THEN "AssertionError" ELSE "IndexError")
          /\ history' = <<>>]_vars

C5_Witness ==
    /\ history = <<>>
    /\ lastOp = "record"
    /\ herr = "AssertionError"
    /\ ncalls = 2

\* the dicts d and dd differ in one key at most, which dd has
OneKeySet(d, dd) ==
    \E attr \in DOMAIN dd :
        /\ DOMAIN dd = DOMAIN d \cup {attr}
        /\ \A k \in DOMAIN d \ {attr} : dd[k] = d[k]

(***************************************************************************)
(* C31.  A record_batch call on a History with an Epoch Record changes the *)
(* latest Batch Record of the latest Epoch Record and nothing else: the    *)
(* earlier Epoch Records, the epoch-level keys and the earlier Batch       *)
(* Records stay as they are.  When the latest Epoch Record has no Batch    *)
(* Record, the call raises and the History is unchanged.                   *)
(***************************************************************************)
C31_RecordBatchFrame ==
    [][(lastOp' = "record_batch" /\ ncalls' = ncalls + 1 /\ history # <<>>) =>
          LET e == Len(history)
              b == Len(history[e].batches)
          IN  IF b = 0
              THEN /\ herr' = "IndexError"
                   /\ history' = history
              ELSE /\ herr' = "none"
                   /\ Len(history') = e
                   /\ \A i \in 1..(e - 1) : history'[i] = history[i]
                   /\ history'[e].cols = history[e].cols
                   /\ Len(history'[e].batches) = b
                   /\ \A j \in 1..(b - 1) :
                          history'[e].batches[j] = history[e].batches[j]
                   /\ OneKeySet(history[e].batches[b], history'[e].batches[b])]_vars

\* the second epoch's batch got a value its own; the first epoch's batch and
\* the epoch-level key of the second epoch are as they were
C31_Witness ==
    /\ lastOp = "record_batch"
    /\ herr = "none"
    /\ Len(history) = 2
    /\ Len(history[1].batches) = 1
    /\ Len(history[2].batches) = 1
    /\ DOMAIN history[1].batches[1] = {"train_loss"}
    /\ DOMAIN history[2].batches[1] = {"train_loss"}
    /\ history[1].batches[1]["train_loss"] = 1
    /\ history[2].batches[1]["train_loss"] = 2
    /\ DOMAIN history[2].cols = {"valid_loss"}

\* the call failed on an epoch without batches, after an epoch with one
C31_WitnessFails ==
    /\ lastOp = "record_batch"
    /\ herr = "IndexError"
    /\ Len(history) = 2
    /\ history[2].batches = <<>>
    /\ Len(history[1].batches) = 1
    /\ "train_loss" \in DOMAIN history[1].batches[1]

(***************************************************************************)
(* Callback registration.  An entry of default_callbacks or callbacks is   *)
(* a bare callback (name = NoName) or a (name, callback) pair; the         *)
(* callback is a class (inst = FALSE) or an instance of it (inst = TRUE).  *)
(***************************************************************************)
MaxUserCallbacks == 2

NoName == ""

\* names a user gives explicitly: one of a default callback, one that is
\* also a class name
ExplicitNames == {"print_log", "EpochTimer"}

\* MyPrintLog is a subclass of PrintLog written by the user
UserClasses == {"EpochTimer", "PrintLog", "MyPrintLog"}

Entry(name, cls, inst) == [name |-> name, cls |-> cls, inst |-> inst]

UserEntries ==
    [name : {NoName} \cup ExplicitNames, cls : UserClasses, inst : BOOLEAN]

RECURSIVE SeqsUpTo(_, _)
\* the sequences over the set E of length at most n
SeqsUpTo(E, n) ==
    IF n = 0 THEN {<<>>}
    ELSE LET shorter == SeqsUpTo(E, n - 1)
         IN  shorter \cup {Append(q, x) : q \in shorter, x \in E}

\* NeuralNet.default_callbacks
NeuralNetDefaults ==
    << Entry("epoch_timer", "EpochTimer", FALSE),
       Entry("train_loss", "Scoring", TRUE),
       Entry("valid_loss", "Scoring", TRUE),
       Entry("print_log", "PrintLog", FALSE) >>

\* NeuralNetClassifier.default_callbacks
ClassifierDefaults ==
    << Entry("epoch_timer", "EpochTimer", TRUE),
       Entry("train_loss", "Scoring", TRUE),
       Entry("valid_loss", "Scoring", TRUE),
       Entry("valid_acc", "Scoring", TRUE),
       Entry("print_log", "PrintLog", TRUE) >>

\* issubclass(cls, PrintLog)
IsPrintLogClass(cls) == cls \in {"PrintLog", "MyPrintLog"}

\* _yield_callbacks, lines 402-409: the name of an entry
ResolveName(item) == IF item.name # NoName THEN item.name ELSE item.cls

\* _yield_callbacks, line 410: isinstance(cb, PrintLog) or (cb == PrintLog)
IsPrintLog(item) ==
    \/ item.inst /\ IsPrintLogClass(item.cls)
    \/ ~item.inst /\ item.cls = "PrintLog"

NotPrintLog(item) == ~IsPrintLog(item)

\* _yield_callbacks yielding the entries in the order of the list
YieldCallbacksInOrder(defaults, user) ==
    LET items == defaults \o user
    IN  [i \in 1..Len(items) |-> [items[i] EXCEPT !.name = ResolveName(items[i])]]

\* _yield_callbacks, lines 394-414: the (name, cb) pairs in the order yielded
YieldCallbacks(defaults, user) ==
    LET items == defaults \o user
        named == [i \in 1..Len(items) |-> [items[i] EXCEPT !.name = ResolveName(items[i])]]
    IN  SelectSeq(named, NotPrintLog) \o SelectSeq(named, IsPrintLog)

\* a duplicate check that remembers only the previous name
FirstDuplicateAdjacent(ys) ==
    IF \E i \in 2..Len(ys) : ys[i].name = ys[i - 1].name
    THEN CHOOSE i \in 2..Len(ys) :
             /\ ys[i].name = ys[i - 1].name
             /\ \A k \in 2..(i - 1) : ys[k].name # ys[k - 1].name
    ELSE 0

\* initialize_callbacks, lines 433-437: the position of the first yielded
\* pair whose name is in names_seen, 0 when there is none
FirstDuplicate(ys) ==
    LET Seen(i) == \E j \in 1..(i - 1) : ys[j].name = ys[i].name
    IN  IF \E i \in 1..Len(ys) : Seen(i)
        THEN CHOOSE i \in 1..Len(ys) : Seen(i) /\ \A k \in 1..(i - 1) : ~Seen(k)
        ELSE 0

\* initialize_callbacks, lines 439-445: every callback of the result is an
\* initialized instance
Instances(ys) == [i \in 1..Len(ys) |-> [name |-> ys[i].name, cls |-> ys[i].cls]]

\* an initialize_callbacks that appends to self.callbacks_ as it goes
InitializeCallbacksEager ==
    LET ys == YieldCallbacks(default_callbacks, callbacks)
        dup == FirstDuplicate(ys)
    IN  /\ cbdone' = TRUE
        /\ IF dup # 0
           THEN /\ cberr' = <<"ValueError", ys[dup].name>>
                /\ callbacks_' = Instances(SubSeq(ys, 1, dup - 1))
           ELSE /\ cberr' = <<"none", "">>
                /\ callbacks_' = Instances(ys)
        /\ UNCHANGED <<default_callbacks, callbacks>>

\* NeuralNet.initialize_callbacks, lines 416-448
InitializeCallbacks ==
    LET ys == YieldCallbacks(default_callbacks, callbacks)
        dup == FirstDuplicate(ys)
    IN  /\ cbdone' = TRUE
        /\ IF dup # 0
           THEN /\ cberr' = <<"ValueError", ys[dup].name>>
                /\ UNCHANGED callbacks_
           ELSE /\ cberr' = <<"none", "">>
                /\ callbacks_' = Instances(ys)
        /\ UNCHANGED <<default_callbacks, callbacks>>

CInitializeCallbacks ==
    /\ ~cbdone
    /\ InitializeCallbacks
    /\ UNCHANGED histVars
    /\ UNCHANGED netVars

InitCallbacks ==
    /\ HistoryFresh
    /\ default_callbacks \in {NeuralNetDefaults, ClassifierDefaults}
    /\ callbacks \in SeqsUpTo(UserEntries, MaxUserCallbacks)
    /\ callbacks_ = <<>>
    /\ cberr = <<"none", "">>
    /\ cbdone = FALSE
    /\ cold_start = TRUE
    /\ max_epochs = 0
    /\ nTrain = 0
    /\ nValid = 0
    /\ CfgDefault
    /\ NetFresh

NextCallbacks == CInitializeCallbacks

SpecCallbacks == InitCallbacks /\ [][NextCallbacks]_vars

(***************************************************************************)
(* C6.  initialize_callbacks raises a ValueError naming a duplicated name  *)
(* when two entries of default_callbacks + callbacks resolve to the same   *)
(* name; otherwise the names of callbacks_ are pairwise distinct.          *)
(***************************************************************************)
MergedNames ==
    LET items == default_callbacks \o callbacks
    IN  [i \in 1..Len(items) |-> ResolveName(items[i])]

C6_NameCollision ==
    cbdone =>
        LET names == MergedNames
            Twice(n) == \E i, j \in 1..Len(names) : i # j /\ names[i] = n /\ names[j] = n
        IN  IF \E i \in 1..Len(names) : Twice(names[i])
            THEN /\ cberr[1] = "ValueError"
                 /\ Twice(cberr[2])
            ELSE /\ cberr[1] = "none"
                 /\ Len(callbacks_) = Len(names)
                 /\ \A i, j \in 1..Len(callbacks_) :
                        i # j => callbacks_[i].name # callbacks_[j].name

\* a bare EpochTimer class and a pair named 'EpochTimer' collide
C6_Witness ==
    /\ cbdone
    /\ Len(callbacks) = 2
    /\ callbacks[1].name = NoName /\ callbacks[1].cls = "EpochTimer"
    /\ callbacks[2].name = "EpochTimer" /\ callbacks[2].cls = "MyPrintLog"
    /\ cberr = <<"ValueError", "EpochTimer">>

(***************************************************************************)
(* C7.  In callbacks_ every PrintLog callback (an instance of PrintLog or  *)
(* of a subclass) comes after every other callback, and both groups keep   *)
(* the order of default_callbacks + callbacks.                             *)
(***************************************************************************)
C7_PrintersLast ==
    (cbdone /\ cberr[1] = "none") =>
        LET IsPrinter(cb) == IsPrintLogClass(cb.cls)
            NotPrinter(cb) == ~IsPrintLogClass(cb.cls)
            merged == Instances(YieldCallbacksInOrder(default_callbacks, callbacks))
        IN  /\ \A i, j \in 1..Len(callbacks_) :
                   (IsPrinter(callbacks_[i]) /\ NotPrinter(callbacks_[j])) => j < i
            /\ SelectSeq(callbacks_, IsPrinter) = SelectSeq(merged, IsPrinter)
            /\ SelectSeq(callbacks_, NotPrinter) = SelectSeq(merged, NotPrinter)

(***************************************************************************)
(* The orchestrator NeuralNet.  A fit or partial_fit call runs in steps:   *)
(* one per notification (or, in SpecNotify, one per receiver of a          *)
(* notification), one for entering fit_loop and three per mini-batch (the  *)
(* step, then the two record_batch calls).  An exception raised by a       *)
(* callback hook or by a step, and a KeyboardInterrupt delivered between   *)
(* two statements of fit_loop, are the faults of the model.                *)
(***************************************************************************)
MaxFitCalls == 2

MaxFaults == 1

EpochsCfg == {1, 2}

TrainBatchesCfg == {1, 2}

ValidBatchesCfg == {0, 1}

\* the configurations of SpecNotify
NotifyEpochsCfg == {1}

NotifyTrainBatchesCfg == {1}

\* module__num_units
ModuleNumUnits == <<"module", "__", "num_units">>

\* the module__ parameters given to the constructor: none, or one
AttrsCfg == {EmptyDict, SetKey(EmptyDict, ModuleNumUnits, 1)}

\* user callbacks of the orchestrator: none, one, one whose name collides
CallbacksCfg ==
    { <<>>,
      <<Entry(NoName, "EpochTimer", FALSE)>>,
      <<Entry("print_log", "MyPrintLog", TRUE)>> }

\* the user callbacks of Spec, where a notification is one step
FitCallbacksCfg == { <<>>, <<Entry("print_log", "MyPrintLog", TRUE)>> }

\* loss.data[0] of a step and len(xi) of its mini-batch
Losses == {1}

BatchSizes == {128}

ExcKinds == {"Exception", "KeyboardInterrupt"}

At(p, hk, tr, e, b) == [pc |-> p, hook |-> hk, train |-> tr, epoch |-> e, batch |-> b]

\* self.notify(method_name, ...) is what runs next
Notify(hk, tr, e, b) == At("notify", hk, tr, e, b)

\* fit_loop, lines 592-594 and 603
EpochEnd(e) == Notify("on_epoch_end", FALSE, e, 0)

\* a fit loop that never validates
ValidPhaseSkip(e) == EpochEnd(e)

\* fit_loop, lines 592-597: X_valid is None, or the validation iterator
ValidPhase(e) ==
    IF split.valid > 0 THEN Notify("on_batch_begin", FALSE, e, 0) ELSE EpochEnd(e)

\* a fit loop that skips the training iterator
TrainPhaseSkip(e) == ValidPhase(e)

\* fit_loop, lines 585-586: the training iterator
TrainPhase(e) ==
    IF split.train > 0 THEN Notify("on_batch_begin", TRUE, e, 0) ELSE ValidPhase(e)

\* fit_loop, line 582, and partial_fit, line 633, when the loop is over
LoopHead(e) ==
    IF e < max_epochs THEN Notify("on_epoch_begin", FALSE, e, 0)
    ELSE Notify("on_train_end", FALSE, 0, 0)

\* where control goes when the notification in progress returns
AfterNotify ==
    CASE hook = "on_train_begin" -> At("fit_loop", "", FALSE, 0, 0)
      [] hook = "on_epoch_begin" -> TrainPhase(epoch)
      [] hook = "on_batch_begin" ->
            At(IF train THEN "train_step" ELSE "validation_step", "", train, epoch, batch)
      [] hook = "on_batch_end" ->
            IF batch + 1 < (IF train THEN split.train ELSE split.valid)
            THEN Notify("on_batch_begin", train, epoch, batch + 1)
            ELSE IF train THEN ValidPhase(epoch) ELSE EpochEnd(epoch)
      [] hook = "on_epoch_end" -> LoopHead(epoch + 1)
      [] hook = "on_train_end" -> At("idle", "", FALSE, 0, 0)

Jump(c) ==
    /\ pc' = c.pc
    /\ hook' = c.hook
    /\ train' = c.train
    /\ epoch' = c.epoch
    /\ batch' = c.batch
    /\ rcv' = 0

\* control moves on within fit_loop, or leaves it: X_train and X_valid stay
Goto(c) ==
    /\ Jump(c)
    /\ UNCHANGED split

\* fit_loop, lines 551-604: the call is inside fit_loop
InFitLoop ==
    \/ pc \in {"fit_loop", "train_step", "validation_step", "record_loss", "record_size"}
    \/ pc = "notify" /\ hook \notin {"on_train_begin", "on_train_end"}

\* a partial_fit without the try block
InTryNever == FALSE

\* partial_fit, lines 629-632: the try block holds the call of fit_loop
InTry == InFitLoop

\* a bare except clause
CaughtAny(kind) == TRUE

\* partial_fit, line 631: except KeyboardInterrupt
Caught(kind) == kind = "KeyboardInterrupt"

\* partial_fit, lines 629-633: an exception raised at the current statement.
\* A KeyboardInterrupt inside the try block is caught and on_train_end is
\* notified; anything else ends the call.
Propagate(kind) ==
    /\ nfault < MaxFaults
    /\ nfault' = nfault + 1
    /\ interrupted' = (interrupted \/ (kind = "KeyboardInterrupt" /\ InFitLoop))
    /\ IF Caught(kind) /\ InTry
       THEN /\ Goto(Notify("on_train_end", FALSE, 0, 0))
            /\ exc' = "none"
       ELSE /\ Goto(At("idle", "", FALSE, 0, 0))
            /\ exc' = kind

\* an initialize_history that keeps the log
InitializeHistoryKeep == history

\* NeuralNet.initialize_history: self.history = History()
InitializeHistory == <<>>

\* inferno.callbacks.Callback: the hooks NeuralNet inherits without
\* overriding them (on_train_begin, on_train_end, on_epoch_end, on_batch_end)
\* do nothing
CallbackHook(h, hk) == h

\* a net whose own hooks do not drive the History
NetHookNoop(h, hk) == h

\* the hook hk of the net itself: NeuralNet.on_epoch_begin, lines 387-389,
\* NeuralNet.on_batch_begin, lines 391-392, else the inherited no-op
NetHook(h, hk) ==
    CASE hk = "on_epoch_begin" -> Record(NewEpoch(h), "epoch", Len(NewEpoch(h)))
      [] hk = "on_batch_begin" -> NewBatch(h)
      [] OTHER -> CallbackHook(h, hk)

\* the on_train_begin and on_train_end notifications of the call so far
Hooked(hs, hk) ==
    IF hk \in {"on_train_begin", "on_train_end"} THEN Append(hs, hk) ELSE hs

\* the module the training steps work on
Trains(m_) == IF m_.obj = "module" THEN "given" ELSE "own"

\* NeuralNet.train_step, lines 523-537: optimizer.step() updates the
\* parameters of module_
TrainStep(l, m_) == [l EXCEPT ![Trains(m_)] = TRUE]

\* Epoch Records the net's own hook appends
Appends(hk) == IF hk = "on_epoch_begin" THEN 1 ELSE 0

(***************************************************************************)
(* Attribute names.  A name is kept as the sequence of its parts, so that  *)
(* str.startswith and str.endswith are computed on it: 'optim__momentum'   *)
(* is <<"optim", "__", "momentum">> and 'optimizer__momentum' is           *)
(* <<"optim", "izer", "__", "momentum">>.                                  *)
(***************************************************************************)
\* key.startswith(prefix)
StartsWith(key, prefix) ==
    /\ Len(prefix) <= Len(key)
    /\ SubSeq(key, 1, Len(prefix)) = prefix

\* key.endswith('_')
EndsWithUnderscore(key) == key[Len(key)] \in {"_", "__"}

\* NeuralNet.prefixes_
prefixes_ ==
    { <<"module">>, <<"iterator_train">>, <<"iterator_test">>, <<"optim">>,
      <<"criterion">>, <<"callbacks">> }

\* NeuralNet._get_params_for: the entries of __dict__ under prefix + '__',
\* with the prefix taken off the keys
GetParamsFor(d, prefix) ==
    LET pre == prefix \o <<"__">>
        under == {key \in DOMAIN d : StartsWith(key, pre)}
        Full(rest) == CHOOSE key \in under : SubSeq(key, Len(pre) + 1, Len(key)) = rest
    IN  [rest \in {SubSeq(key, Len(pre) + 1, Len(key)) : key \in under} |-> d[Full(rest)]]

\* the objects initialize and set_params build
Objs == [module_ |-> module_, optim_ |-> optim_, criterion_ |-> criterion_,
         learned |-> learned, err |-> "none"]

SetObjs(o) ==
    /\ module_' = o.module_
    /\ optim_' = o.optim_
    /\ criterion_' = o.criterion_
    /\ learned' = o.learned

\* NeuralNet.initialize_criterion, lines 450-454
InitializeCriterion(o) ==
    [o EXCEPT !.criterion_ = [set |-> TRUE, kwargs |-> GetParamsFor(attrs', <<"criterion">>)]]

\* an initialize_module that keeps the module_ it finds
InitializeModuleKeep(o) == o

\* the optimizer op once module_ refers to another object
Replaced(op) == IF op.set THEN [op EXCEPT !.params = "replaced"] ELSE op

\* NeuralNet.initialize_module, lines 456-481: a module given as an instance
\* is instantiated again only when there are module__ parameters.  Line 480
\* binds module_ to the new object, or to self.module again.
InitializeModule(o) ==
    LET kw == GetParamsFor(attrs', <<"module">>)
        is_initialized == module' = "instance"
    IN  IF DOMAIN kw # {} \/ ~is_initialized
        THEN [o EXCEPT !.module_ = [obj |-> "new", kwargs |-> kw],
                       !.learned.own = FALSE,
                       !.optim_ = Replaced(@)]
        ELSE [o EXCEPT !.module_ = [obj |-> "module", kwargs |-> kw],
                       !.optim_ = IF o.module_.obj = "module" THEN @ ELSE Replaced(@)]

\* an initialize_optimizer that keeps the optimizer it finds
InitializeOptimizerOnce(o) ==
    IF o.module_.obj = "unset" THEN [o EXCEPT !.err = "AttributeError"]
    ELSE IF o.optim_.set THEN o
    ELSE [o EXCEPT !.optim_ = [set |-> TRUE, kwargs |-> SetKey(EmptyDict, <<"lr">>, lr'),
                               params |-> "module_"]]

\* NeuralNet.initialize_optimizer, lines 483-491; self.module_ raises the
\* AttributeError when there is no module_
InitializeOptimizer(o) ==
    LET kw == GetParamsFor(attrs', <<"optim">>)
        kw_lr == IF <<"lr">> \in DOMAIN kw THEN kw ELSE SetKey(kw, <<"lr">>, lr')
    IN  IF o.module_.obj = "unset"
        THEN [o EXCEPT !.err = "AttributeError"]
        ELSE [o EXCEPT !.optim_ = [set |-> TRUE, kwargs |-> kw_lr, params |-> "module_"]]

\* an initialize that builds the optimizer before the module
InitializeOptimizerFirst ==
    /\ InitializeCallbacks
    /\ IF cberr'[1] = "none"
       THEN /\ SetObjs(InitializeModule(InitializeOptimizer(InitializeCriterion(Objs))))
            /\ history' = InitializeHistory
            /\ initialized_' = TRUE
            /\ inits' = <<"initialize_callbacks", "initialize_criterion",
                          "initialize_module", "initialize_optimizer",
                          "initialize_history">>
       ELSE /\ inits' = <<"initialize_callbacks">>
            /\ UNCHANGED <<history, initialized_, module_, optim_, criterion_, learned>>

\* NeuralNet.initialize, lines 497-506.  initialize_callbacks comes first
\* and may raise; the criterion, the module and the optimizer follow.
Initialize ==
    /\ InitializeCallbacks
    /\ IF cberr'[1] = "none"
       THEN /\ SetObjs(InitializeOptimizer(InitializeModule(InitializeCriterion(Objs))))
            /\ history' = InitializeHistory
            /\ initialized_' = TRUE
            /\ inits' = <<"initialize_callbacks", "initialize_criterion",
                          "initialize_module", "initialize_optimizer",
                          "initialize_history">>
       ELSE /\ inits' = <<"initialize_callbacks">>
            /\ UNCHANGED <<history, initialized_, module_, optim_, criterion_, learned>>

\* the start of a public call: the history variables
BeginCall(name) ==
    /\ pc = "idle"
    /\ lastCall' = name
    /\ notified' = <<>>
    /\ nid' = 0
    /\ raised' = NoRaise
    /\ appended' = 0
    /\ interrupted' = FALSE
    /\ trainHooks' = <<>>
    /\ nsteps' = 0
    /\ trace' = <<>>
    /\ prior' = [call |-> lastCall, clean |-> exc = "none" /\ ~interrupted, inits |-> inits]

\* the start of a public call that leaves the configuration alone
Begin(name) ==
    /\ BeginCall(name)
    /\ UNCHANGED <<histVarsRest, cfgVars, nfault>>

\* partial_fit, lines 625-628, after the initialization decided by needInit
FitBody(needInit) ==
    /\ ncall < MaxFitCalls
    /\ ncall' = ncall + 1
    /\ UNCHANGED out
    /\ IF needInit
       THEN Initialize
       ELSE /\ cberr' = <<"none", "">>
            /\ inits' = <<>>
            /\ UNCHANGED <<history, initialized_, default_callbacks, callbacks,
                           callbacks_, cbdone, module_, optim_, criterion_, learned>>
    /\ IF cberr'[1] = "none"
       THEN /\ Goto(Notify("on_train_begin", FALSE, 0, 0))
            /\ exc' = "none"
       ELSE /\ Goto(At("idle", "", FALSE, 0, 0))
            /\ exc' = cberr'[1]

\* NeuralNet.fit, lines 636-655, up to the first notification
Fit ==
    /\ Begin("fit")
    /\ FitBody(cold_start \/ ~initialized_)

\* a partial_fit that initializes the net every time
PartialFitCold ==
    /\ Begin("partial_fit")
    /\ FitBody(TRUE)

\* NeuralNet.partial_fit, lines 606-628, up to the first notification
PartialFit ==
    /\ Begin("partial_fit")
    /\ FitBody(~initialized_)

\* a call of NeuralNet.initialize
CallInitialize ==
    /\ Begin("initialize")
    /\ lastCall # "initialize"
    /\ Initialize
    /\ exc' = cberr'[1]
    /\ UNCHANGED <<ctlVars, ncall, out>>

\* what the current call did: a method called on the net or by it, with the
\* train flag of its mini-batch
Event(ev, tr) == [ev |-> ev, train |-> tr]

\* a check_data that accepts everything
CheckDataNever(est, dim, iter) == "none"

\* NeuralNet.check_data, NeuralNetClassifier.check_data and
\* NeuralNetRegressor.check_data: the exception raised, "none" if the data
\* pass.  dim is "none" when y is None, else "1d" or "2d" for get_dim(y).
CheckData(est, dim, iter) ==
    CASE est = "NeuralNet" -> "none"
      [] est = "NeuralNetClassifier" ->
            IF dim = "none" /\ iter = "DataLoader" THEN "ValueError" ELSE "none"
      [] est = "NeuralNetRegressor" ->
            IF dim = "none" /\ iter = "DataLoader" THEN "ValueError"
            ELSE IF dim = "none" THEN "none"
            ELSE IF dim = "1d" THEN "ValueError"
            ELSE "none"

\* NeuralNetClassifier.__init__: train_split=CVSplit(5, stratified=True)
Stratified(est) == est = "NeuralNetClassifier"

\* CVSplit.__call__, lines 242-245: a stratified split needs a y
SplitRaises(est, dim) == Stratified(est) /\ dim = "none"

\* a splitter that takes the last split of the generator
CVSplitLast(c) == c[Len(c)]

\* CVSplit.__call__, line 262: next(iter(cv.split(...))), the first split
CVSplitCall(c) == Head(c)

\* fit_loop, lines 573-580: the subsets of train_split, or all of X to train on
TrainSplit ==
    IF cv # <<>> THEN CVSplitCall(cv) ELSE [train |-> nTrain, valid |-> 0]

\* fit_loop, lines 570-582: check_data, the split, the datasets.  What
\* check_data or the splitter raises is no KeyboardInterrupt and ends the
\* call.
FitLoopBegin ==
    /\ pc = "fit_loop"
    /\ LET err == CheckData(estimator, yarg, iterator_train)
           checked == Append(trace, Event("check_data", FALSE))
           called == Append(checked, Event("train_split", FALSE))
       IN  IF err # "none"
           THEN /\ Goto(At("idle", "", FALSE, 0, 0))
                /\ exc' = err
                /\ trace' = checked
           ELSE IF cv # <<>> /\ SplitRaises(estimator, yarg)
           THEN /\ Goto(At("idle", "", FALSE, 0, 0))
                /\ exc' = "ValueError"
                /\ trace' = called
           ELSE /\ Jump(LoopHead(0))
                /\ split' = TrainSplit
                /\ exc' = exc
                /\ trace' = IF cv # <<>> THEN called ELSE checked
    /\ UNCHANGED <<history, histVarsRest, cbVars, cfgVars, callVars, initialized_,
                   objVars, trainHooks, nsteps, lastCall,
                   ncall, nfault, ghostVars>>

\* a validation_step that updates the parameters as well
OptimizerCallsAlways(p) == <<Event("zero_grad", TRUE), Event("step", TRUE)>>

\* train_step, lines 532 and 536: optimizer.zero_grad() and optimizer.step();
\* validation_step, lines 511-521, calls neither
OptimizerCalls(p) ==
    IF p = "train_step" THEN <<Event("zero_grad", TRUE), Event("step", TRUE)>> ELSE <<>>

\* fit_loop, lines 587 and 598: train_step or validation_step
Step ==
    /\ pc \in {"train_step", "validation_step"}
    /\ IF pc = "train_step"
       THEN /\ learned' = TrainStep(learned, module_)
            /\ nsteps' = nsteps + 1
       ELSE UNCHANGED <<learned, nsteps>>
    /\ trace' = Append(trace, Event(pc, train)) \o OptimizerCalls(pc)
    /\ Goto(At("record_loss", "", train, epoch, batch))
    /\ UNCHANGED <<history, histVarsRest, cbVars, cfgVars, callVars, initialized_,
                   module_, optim_, criterion_, inits, trainHooks, exc, lastCall,
                   ncall, nfault, ghostVars>>

\* fit_loop, lines 588 and 599
RecordLoss ==
    /\ pc = "record_loss"
    /\ \E loss \in Losses :
           history' = RecordBatch(history, IF train THEN "train_loss" ELSE "valid_loss", loss)
    /\ Goto(At("record_size", "", train, epoch, batch))
    /\ UNCHANGED <<histVarsRest, cbVars, cfgVars, callVars, initialized_,
                   objVars, fitGhost, exc, lastCall,
                   ncall, nfault, ghostVars>>

\* fit_loop, lines 589-590 and 600-601
RecordSize ==
    /\ pc = "record_size"
    /\ \E size \in BatchSizes :
           history' = RecordBatch(history,
                          IF train THEN "train_batch_size" ELSE "valid_batch_size", size)
    /\ Goto(Notify("on_batch_end", train, epoch, batch))
    /\ UNCHANGED <<histVarsRest, cbVars, cfgVars, callVars, initialized_,
                   objVars, fitGhost, exc, lastCall,
                   ncall, nfault, ghostVars>>

\* an exception raised by a step or between two statements of fit_loop
StepFault ==
    /\ pc \in {"fit_loop", "train_step", "validation_step", "record_loss", "record_size"}
    /\ \E kind \in ExcKinds : Propagate(kind)
    /\ UNCHANGED <<history, histVarsRest, cbVars, cfgVars, callVars, initialized_,
                   objVars, fitGhost, lastCall, ncall,
                   notified, nid, raised, appended>>

\* notify, lines 383-385, as a whole: the hook of the net, then the hooks of
\* all callbacks, none of which raises
NotifyAll ==
    /\ pc = "notify"
    /\ history' = NetHook(history, hook)
    /\ trainHooks' = Hooked(trainHooks, hook)
    /\ trace' = Append(trace, Event(hook, train))
    /\ appended' = appended + Appends(hook)
    /\ Goto(AfterNotify)
    /\ exc' = "none"
    /\ UNCHANGED <<histVarsRest, cbVars, cfgVars, callVars, initialized_,
                   objVars, nsteps, lastCall, ncall, nfault,
                   notified, nid, raised, interrupted>>

\* notify, lines 383-385: the hook of the net, then the hook of a callback
\* raises
NotifyRaises ==
    /\ pc = "notify"
    /\ callbacks_ # <<>>
    /\ history' = NetHook(history, hook)
    /\ trainHooks' = Hooked(trainHooks, hook)
    /\ trace' = Append(trace, Event(hook, train))
    /\ appended' = appended + Appends(hook)
    /\ \E kind \in ExcKinds : Propagate(kind)
    /\ UNCHANGED <<histVarsRest, cbVars, cfgVars, callVars, initialized_,
                   objVars, nsteps, lastCall, ncall,
                   notified, nid, raised>>

\* NeuralNet.on_epoch_begin, lines 388-389: a KeyboardInterrupt delivered
\* when new_epoch has returned and record('epoch', ...) has not yet run
EpochBeginInterrupted ==
    /\ pc = "notify"
    /\ hook = "on_epoch_begin"
    /\ history' = NewEpoch(history)
    /\ appended' = appended + 1
    /\ trace' = Append(trace, Event(hook, train))
    /\ Propagate("KeyboardInterrupt")
    /\ UNCHANGED <<histVarsRest, cbVars, cfgVars, callVars, initialized_,
                   objVars, trainHooks, nsteps, lastCall, ncall,
                   notified, nid, raised>>

InitNet ==
    /\ HistoryFresh
    /\ default_callbacks = NeuralNetDefaults
    /\ callbacks \in FitCallbacksCfg
    /\ callbacks_ = <<>>
    /\ cberr = <<"none", "">>
    /\ cbdone = FALSE
    /\ cold_start \in BOOLEAN
    /\ max_epochs \in EpochsCfg
    /\ nTrain \in TrainBatchesCfg
    /\ nValid \in ValidBatchesCfg
    /\ module \in {"type", "instance"}
    /\ lr = DefaultLr
    /\ attrs \in AttrsCfg
    /\ kwargs = attrs
    /\ nparam = 0
    /\ NetFresh

Init == InitNet

Next ==
    \/ Fit
    \/ PartialFit
    \/ CallInitialize
    \/ FitLoopBegin
    \/ Step
    \/ RecordLoss
    \/ RecordSize
    \/ StepFault
    \/ NotifyAll
    \/ NotifyRaises
    \/ EpochBeginInterrupted

Spec == Init /\ [][Next]_vars

(***************************************************************************)
(* C10.  Cold start: when a fit call of a cold_start estimator returns     *)
(* without having been interrupted, the History holds exactly max_epochs   *)
(* Epoch Records, all of them appended by that call.                       *)
(***************************************************************************)
C10_ColdStartHistory ==
    (pc = "idle" /\ lastCall = "fit" /\ cold_start /\ exc = "none" /\ ~interrupted) =>
        /\ Len(history) = max_epochs
        /\ appended = max_epochs

C10_Witness ==
    /\ pc = "idle" /\ lastCall = "fit" /\ cold_start /\ exc = "none" /\ ~interrupted
    /\ ncall = 2
    /\ nfault = 0
    /\ max_epochs = 2
    /\ Len(history) = 2
    /\ Len(history[2].batches) = nTrain + nValid

(***************************************************************************)
(* C11.  Cold start, model: when a fit call of a cold_start estimator      *)
(* starts training, module_ holds no learned parameters, whether module    *)
(* was given as a type or as an instance, with module__ parameters or not. *)
(***************************************************************************)
C11_ColdStartModel ==
    (lastCall = "fit" /\ cold_start /\ pc = "notify" /\ hook = "on_train_begin") =>
        ~learned[Trains(module_)]

\* the call in progress, or the last one, is a fit or partial_fit that did
\* not run initialize
WarmCall(call, ins) == call \in {"fit", "partial_fit"} /\ ins = <<>>

(***************************************************************************)
(* C12.  Warm start: a fit that initialized the net and was not            *)
(* interrupted followed by an uninterrupted partial_fit (or fit with       *)
(* cold_start false) leaves a History of 2 * max_epochs Epoch Records; no  *)
(* step of the second call replaces module_, optim_, criterion_ or         *)
(* callbacks_, nor removes or replaces an Epoch Record.                    *)
(***************************************************************************)
C12_WarmStart ==
    /\ []((/\ pc = "idle" /\ exc = "none" /\ ~interrupted
           /\ lastCall = "partial_fit" \/ (lastCall = "fit" /\ ~cold_start)
           /\ prior.call = "fit" /\ prior.clean /\ prior.inits # <<>>)
          => (inits = <<>> /\ Len(history) = max_epochs + max_epochs))
    /\ [][WarmCall(lastCall', inits') =>
             /\ module_' = module_
             /\ optim_' = optim_
             /\ criterion_' = criterion_
             /\ callbacks_' = callbacks_
             /\ Len(history') >= Len(history)
             /\ \A i \in 1..(Len(history) - 1) : history'[i] = history[i]]_vars

C12_Witness ==
    /\ pc = "idle" /\ exc = "none" /\ ~interrupted
    /\ lastCall = "partial_fit"
    /\ prior.call = "fit" /\ prior.clean /\ prior.inits # <<>>
    /\ inits = <<>>
    /\ max_epochs = 2
    /\ Len(history) = 4
    /\ learned[Trains(module_)]

(***************************************************************************)
(* C13.  A KeyboardInterrupt raised inside fit_loop does not reach the     *)
(* caller: the call goes on with the on_train_end notification and runs    *)
(* no further epoch.  In every call on_train_end is notified at most once  *)
(* and only after on_train_begin, and exactly once when the call returns   *)
(* or was interrupted.                                                     *)
(***************************************************************************)
C13_InterruptIsEarlyStop ==
    /\ [](/\ trainHooks \in {<<>>, <<"on_train_begin">>,
                             <<"on_train_begin", "on_train_end">>}
          /\ interrupted => (pc = "idle" \/ (pc = "notify" /\ hook = "on_train_end"))
          /\ (pc = "idle" /\ lastCall \in {"fit", "partial_fit"}
                 /\ (interrupted \/ exc = "none"))
             => trainHooks = <<"on_train_begin", "on_train_end">>)
    /\ [][(interrupted' /\ ~interrupted) =>
             /\ exc' = "none"
             /\ pc' = "notify" /\ hook' = "on_train_end"
             /\ "on_train_end" \notin {trainHooks'[i] : i \in 1..Len(trainHooks')}]_vars
    /\ [][(interrupted /\ interrupted') =>
             (Len(history') = Len(history) /\ nsteps' = nsteps)]_vars

C13_Witness ==
    /\ pc = "idle"
    /\ lastCall = "fit"
    /\ interrupted
    /\ exc = "none"
    /\ trainHooks = <<"on_train_begin", "on_train_end">>
    /\ max_epochs = 2
    /\ Len(history) = 1
    /\ Len(history[1].batches) = 1
    /\ nTrain = 2

\* a Batch Record that holds its loss and its batch size
Complete(b) ==
    \/ {"train_loss", "train_batch_size"} \subseteq DOMAIN b
    \/ {"valid_loss", "valid_batch_size"} \subseteq DOMAIN b

\* the Batch Records the current call appended, as <<epoch, batch>> positions
CallBatches ==
    UNION { {<<e, b>> : b \in 1..Len(history[e].batches)} :
            e \in (Len(history) - appended + 1)..Len(history) }

BatchAt(p) == history[p[1]].batches[p[2]]

\* the last Batch Record of the History
IsLastBatch(p) == p[1] = Len(history) /\ p[2] = Len(history[p[1]].batches)

\* the training steps the current call recorded a loss for
TrainLosses == Cardinality({p \in CallBatches : "train_loss" \in DOMAIN BatchAt(p)})

(***************************************************************************)
(* C14 as claimed.  When a fit call that caught a KeyboardInterrupt        *)
(* returns, every Batch Record it appended holds its loss and its batch    *)
(* size, and the module has taken the training steps of these records only.*)
(***************************************************************************)
C14_InterruptTruncates ==
    (pc = "idle" /\ lastCall = "fit" /\ interrupted /\ exc = "none") =>
        /\ \A p \in CallBatches : Complete(BatchAt(p))
        /\ nsteps = TrainLosses

(***************************************************************************)
(* C14 as amended.  When a fit call that caught a KeyboardInterrupt        *)
(* returns, nothing was taken off the History: every Batch Record the call *)
(* appended holds its loss and its batch size, except that the last Batch  *)
(* Record of the History may be empty or hold its loss only; the module    *)
(* has taken the training steps a loss was recorded for, and at most one   *)
(* more, the step of that last Batch Record.                               *)
(***************************************************************************)
C14_InterruptKeepsPartial ==
    (pc = "idle" /\ lastCall = "fit" /\ interrupted /\ exc = "none") =>
        /\ \A p \in CallBatches :
               \/ Complete(BatchAt(p))
               \/ IsLastBatch(p) /\ DOMAIN BatchAt(p) \in {{}, {"train_loss"}, {"valid_loss"}}
        /\ nsteps \in {TrainLosses, TrainLosses + 1}
        /\ nsteps = TrainLosses + 1 =>
               \E p \in CallBatches : IsLastBatch(p) /\ DOMAIN BatchAt(p) = {}

C14_Witness ==
    /\ pc = "idle" /\ lastCall = "fit" /\ interrupted /\ exc = "none"
    /\ Len(history) = 1
    /\ Len(history[1].batches) = 2
    /\ Complete(history[1].batches[1])
    /\ DOMAIN history[1].batches[2] = {}
    /\ nsteps = 2

(***************************************************************************)
(* C15 as claimed.  When an exception other than KeyboardInterrupt is      *)
(* raised inside fit_loop, the call ends with that exception and has       *)
(* notified on_train_end.                                                  *)
(***************************************************************************)
C15_ExceptionStillEnds ==
    [][(InFitLoop /\ nfault' = nfault + 1 /\ ~interrupted') =>
          /\ pc' = "idle"
          /\ exc' = "Exception"
          /\ trainHooks' = <<"on_train_begin", "on_train_end">>]_vars

(***************************************************************************)
(* C15 as amended.  When an exception other than KeyboardInterrupt is      *)
(* raised inside fit_loop, the call ends with that exception at once:      *)
(* on_train_end is not notified for that call.                             *)
(***************************************************************************)
C15_ExceptionSkipsTrainEnd ==
    [][(InFitLoop /\ nfault' = nfault + 1 /\ ~interrupted') =>
          /\ pc' = "idle"
          /\ exc' = "Exception"
          /\ trainHooks' = <<"on_train_begin">>]_vars

C15_Witness ==
    /\ pc = "idle"
    /\ lastCall = "partial_fit"
    /\ exc = "Exception"
    /\ ~interrupted
    /\ trainHooks = <<"on_train_begin">>
    /\ nsteps = 1
    /\ Len(history) = 1

(***************************************************************************)
(* C21.  End-to-end structure: when a fit that initialized the net returns *)
(* without exception or interrupt, the History holds exactly max_epochs    *)
(* Epoch Records, each with an 'epoch' key and nTrain + nValid Batch       *)
(* Records: first the training ones (train_loss, train_batch_size), then   *)
(* the validation ones (valid_loss, valid_batch_size).                     *)
(***************************************************************************)
C21_EpochStructure ==
    (pc = "idle" /\ lastCall = "fit" /\ inits # <<>> /\ exc = "none" /\ ~interrupted) =>
        /\ Len(history) = max_epochs
        /\ \A i \in 1..Len(history) :
              /\ "epoch" \in DOMAIN history[i].cols
              /\ Len(history[i].batches) = nTrain + nValid
              /\ \A j \in 1..Len(history[i].batches) :
                     DOMAIN history[i].batches[j] =
                         IF j <= nTrain THEN {"train_loss", "train_batch_size"}
                         ELSE {"valid_loss", "valid_batch_size"}

C21_Witness ==
    /\ pc = "idle" /\ lastCall = "fit" /\ inits # <<>> /\ exc = "none" /\ ~interrupted
    /\ max_epochs = 2
    /\ nTrain = 2
    /\ nValid = 1
    /\ Len(history) = 2
    /\ DOMAIN history[2].batches[3] = {"valid_loss", "valid_batch_size"}

(***************************************************************************)
(* C25.  Epoch index: whenever no call is running, the i-th Epoch Record   *)
(* of the History has 'epoch' equal to i, whatever calls came before,      *)
(* warm or cold, interrupted or not.                                       *)
(***************************************************************************)
C25_EpochIndex ==
    pc = "idle" =>
        \A i \in 1..Len(history) :
            /\ "epoch" \in DOMAIN history[i].cols
            /\ history[i].cols["epoch"] = i

\* the notifications and the steps of the current call, in order
Protocol ==
    SelectSeq(trace, LAMBDA e : e.ev \notin {"check_data", "train_split", "zero_grad", "step"})

\* n times the sequence q
RECURSIVE Times(_, _)
Times(n, q) == IF n = 0 THEN <<>> ELSE q \o Times(n - 1, q)

\* one mini-batch: the two batch notifications around its step
OneBatch(tr) ==
    << Event("on_batch_begin", tr),
       Event(IF tr THEN "train_step" ELSE "validation_step", tr),
       Event("on_batch_end", tr) >>

\* one epoch over nt training and nv validation mini-batches
OneEpoch(nt, nv) ==
    <<Event("on_epoch_begin", FALSE)>>
    \o Times(nt, OneBatch(TRUE))
    \o Times(nv, OneBatch(FALSE))
    \o <<Event("on_epoch_end", FALSE)>>

(***************************************************************************)
(* C23.  Notification protocol: a partial_fit that returns without         *)
(* exception or interrupt has notified on_train_begin, then for each of    *)
(* the max_epochs epochs on_epoch_begin, for every training mini-batch     *)
(* on_batch_begin(train=True), one train_step, on_batch_end(train=True),   *)
(* for every validation mini-batch the same with train=False around one    *)
(* validation_step, and one on_epoch_end, and finally on_train_end:        *)
(* nothing else, and in this order.                                        *)
(***************************************************************************)
C23_NotificationProtocol ==
    (pc = "idle" /\ lastCall = "partial_fit" /\ exc = "none" /\ ~interrupted) =>
        Protocol = <<Event("on_train_begin", FALSE)>>
                   \o Times(max_epochs, OneEpoch(split.train, split.valid))
                   \o <<Event("on_train_end", FALSE)>>

C23_Witness ==
    /\ pc = "idle" /\ lastCall = "partial_fit" /\ exc = "none" /\ ~interrupted
    /\ max_epochs = 2
    /\ split = [train |-> 2, valid |-> 1]
    /\ Len(Protocol) = 24
    /\ Protocol[10] = Event("validation_step", FALSE)

(***************************************************************************)
(* C24.  initialize: when a call of initialize returns, it has run         *)
(* initialize_callbacks, initialize_criterion, initialize_module,          *)
(* initialize_optimizer and initialize_history in this order, all five     *)
(* objects exist, initialized_ is true and the History is empty, whatever  *)
(* it held before; when it raises, initialized_ is not set.                *)
(***************************************************************************)
C24_InitializeOrder ==
    (pc = "idle" /\ lastCall = "initialize") =>
        IF exc = "none"
        THEN /\ inits = <<"initialize_callbacks", "initialize_criterion",
                          "initialize_module", "initialize_optimizer",
                          "initialize_history">>
             /\ callbacks_ # <<>>
             /\ criterion_.set
             /\ module_.obj # "unset"
             /\ optim_.set
             /\ Len(history) = 0
             /\ initialized_
        ELSE /\ inits = <<"initialize_callbacks">>
             /\ ~initialized_

C24_Witness ==
    /\ pc = "idle" /\ lastCall = "initialize" /\ exc = "none"
    /\ prior.call = "fit" /\ prior.clean
    /\ max_epochs = 2
    /\ Len(history) = 0
    /\ initialized_
    /\ optim_.set

(***************************************************************************)
(* notify receiver by receiver: the hook of the net itself, then the hook  *)
(* of each callback of callbacks_, any of which may raise.                 *)
(***************************************************************************)
\* notify, line 383: getattr(self, method_name)(self, **cb_kwargs)
NotifyNet ==
    /\ pc = "notify"
    /\ rcv = 0
    /\ history' = NetHook(history, hook)
    /\ trainHooks' = Hooked(trainHooks, hook)
    /\ trace' = Append(trace, Event(hook, train))
    /\ appended' = appended + Appends(hook)
    /\ notified' = <<0>>
    /\ nid' = nid + 1
    /\ IF callbacks_ = <<>>
       THEN Goto(AfterNotify)
       ELSE /\ rcv' = 1
            /\ UNCHANGED <<pc, hook, train, epoch, batch, split>>
    /\ exc' = "none"
    /\ UNCHANGED <<histVarsRest, cbVars, cfgVars, callVars, initialized_,
                   objVars, nsteps, lastCall, ncall, nfault,
                   raised, interrupted>>

\* notify, lines 384-385: the hook of callbacks_[rcv] returns
NotifyCallback ==
    /\ pc = "notify"
    /\ rcv >= 1
    /\ notified' = Append(notified, rcv)
    /\ IF rcv = Len(callbacks_)
       THEN Goto(AfterNotify)
       ELSE /\ rcv' = rcv + 1
            /\ UNCHANGED <<pc, hook, train, epoch, batch, split>>
    /\ UNCHANGED <<history, histVarsRest, cbVars, cfgVars, callVars, initialized_,
                   objVars, fitGhost, exc, lastCall,
                   ncall, nfault, nid, raised, appended, interrupted>>

\* a notify that catches what a hook raises and goes on with the next callback
NotifyCallbackSwallows ==
    /\ pc = "notify"
    /\ rcv >= 1
    /\ nfault < MaxFaults
    /\ nfault' = nfault + 1
    /\ notified' = Append(notified, rcv)
    /\ \E kind \in ExcKinds : raised' = [nid |-> nid, rcv |-> rcv, kind |-> kind]
    /\ IF rcv = Len(callbacks_)
       THEN Goto(AfterNotify)
       ELSE /\ rcv' = rcv + 1
            /\ UNCHANGED <<pc, hook, train, epoch, batch, split>>
    /\ UNCHANGED <<history, histVarsRest, cbVars, cfgVars, callVars, initialized_,
                   objVars, fitGhost, exc, lastCall,
                   ncall, nid, appended, interrupted>>

\* notify, lines 384-385: the hook of callbacks_[rcv] raises; nothing in
\* notify or fit_loop catches it
NotifyCallbackRaises ==
    /\ pc = "notify"
    /\ rcv >= 1
    /\ notified' = Append(notified, rcv)
    /\ \E kind \in ExcKinds :
           /\ raised' = [nid |-> nid, rcv |-> rcv, kind |-> kind]
           /\ Propagate(kind)
    /\ UNCHANGED <<history, histVarsRest, cbVars, cfgVars, callVars, initialized_,
                   objVars, fitGhost, lastCall, ncall,
                   nid, appended>>

InitNotify ==
    /\ HistoryFresh
    /\ default_callbacks = NeuralNetDefaults
    /\ callbacks \in CallbacksCfg
    /\ callbacks_ = <<>>
    /\ cberr = <<"none", "">>
    /\ cbdone = FALSE
    /\ cold_start \in BOOLEAN
    /\ max_epochs \in NotifyEpochsCfg
    /\ nTrain \in NotifyTrainBatchesCfg
    /\ nValid \in ValidBatchesCfg
    /\ CfgDefault
    /\ NetFresh

NextNotify ==
    \/ Fit
    \/ PartialFit
    \/ CallInitialize
    \/ FitLoopBegin
    \/ Step
    \/ RecordLoss
    \/ RecordSize
    \/ StepFault
    \/ NotifyNet
    \/ NotifyCallback
    \/ NotifyCallbackRaises

SpecNotify == InitNotify /\ [][NextNotify]_vars

\* the receivers 0 (the net), 1, ..., n in this order
UpTo(n) == [i \in 1..(n + 1) |-> i - 1]

LastEpoch == history[Len(history)]

(***************************************************************************)
(* C8.  A notification invokes the hook on the net itself first, then on   *)
(* every callback of callbacks_ once, in order; so when the on_epoch_begin *)
(* (on_batch_begin) hook of a callback runs, the History holds the new     *)
(* Epoch Record with its 'epoch' entry (the new empty Batch Record).       *)
(***************************************************************************)
C8_NotifyOrder ==
    /\ (pc = "notify" /\ rcv >= 1) => notified = UpTo(rcv - 1)
    /\ (nid > 0 /\ (pc # "notify" \/ rcv = 0) /\ raised.nid # nid) =>
           notified = UpTo(Len(callbacks_))
    /\ (pc = "notify" /\ rcv >= 1 /\ hook = "on_epoch_begin") =>
           /\ appended = epoch + 1
           /\ history # <<>>
           /\ "epoch" \in DOMAIN LastEpoch.cols
           /\ LastEpoch.cols["epoch"] = Len(history)
           /\ LastEpoch.batches = <<>>
    /\ (pc = "notify" /\ rcv >= 1 /\ hook = "on_batch_begin") =>
           /\ history # <<>>
           /\ Len(LastEpoch.batches) = (IF train THEN batch ELSE nTrain + batch) + 1
           /\ DOMAIN LastEpoch.batches[Len(LastEpoch.batches)] = {}

C8_Witness ==
    /\ pc = "notify"
    /\ hook = "on_batch_begin"
    /\ ~train
    /\ Len(callbacks_) = 5
    /\ rcv = 5
    /\ notified = <<0, 1, 2, 3, 4>>
    /\ Len(LastEpoch.batches) = 2
    /\ DOMAIN LastEpoch.batches[2] = {}

(***************************************************************************)
(* C9.  When the hook of callback number r raises, no later callback is    *)
(* invoked for that notification, and the exception leaves notify: it ends *)
(* the call, or it is the KeyboardInterrupt that partial_fit catches.      *)
(***************************************************************************)
C9_NoIsolation ==
    /\ []((raised.kind # "none" /\ nid = raised.nid) => notified = UpTo(raised.rcv))
    /\ [][(raised' # raised /\ raised'.kind # "none") =>
             \/ pc' = "idle" /\ exc' = raised'.kind
             \/ /\ raised'.kind = "KeyboardInterrupt"
                /\ InTry
                /\ interrupted'
                /\ pc' = "notify" /\ hook' = "on_train_end" /\ rcv' = 0]_vars

C9_Witness ==
    /\ raised = [nid |-> 2, rcv |-> 2, kind |-> "Exception"]
    /\ nid = 2
    /\ notified = <<0, 1, 2>>
    /\ Len(callbacks_) = 4
    /\ pc = "idle"
    /\ exc = "Exception"

(***************************************************************************)
(* Parameter routing: set_params, and the operations that need a module_   *)
(* (save_params, load_params, predict).                                    *)
(***************************************************************************)
MaxParamCalls == 1

ModuleNonlin == <<"module", "__", "nonlin">>

CriterionSizeAverage == <<"criterion", "__", "size_average">>

CallbacksPrintLogSink == <<"callbacks", "__", "print_log", "__", "sink">>

OptimMomentum == <<"optim", "__", "momentum">>

OptimizerMomentum == <<"optim", "izer", "__", "momentum">>

IteratorTrainBatchSize == <<"iterator_train", "__", "batch_size">>

IteratorTestBatchSize == <<"iterator_test", "__", "batch_size">>

Lr == <<"lr">>

\* 'criterion_': a special key that ends with '_'
CriterionUnderscore == <<"criterion", "_">>

\* a key that is no attribute of the net
Foo == <<"foo">>

\* the keys of the set_params calls of the model, in the order of the call
SetParamsCalls ==
    { <<ModuleNumUnits>>, <<CriterionSizeAverage>>, <<CallbacksPrintLogSink>>,
      <<OptimMomentum>>, <<OptimizerMomentum>>, <<IteratorTrainBatchSize>>,
      <<IteratorTestBatchSize>>, <<Lr>>, <<CriterionUnderscore>>, <<Foo>>,
      <<ModuleNumUnits, ModuleNonlin>>,
      <<ModuleNumUnits, CriterionSizeAverage>>,
      <<CallbacksPrintLogSink, ModuleNumUnits>>,
      <<OptimMomentum, OptimizerMomentum>>,
      <<Lr, IteratorTrainBatchSize>>,
      <<ModuleNumUnits, CriterionUnderscore>> }

\* the value a set_params call gives to its keys
ParamValues == {2}

\* any(key.startswith(prefix) for prefix in self.prefixes_)
HasPrefix(key) == \E prefix \in prefixes_ : StartsWith(key, prefix)

IsNormal(key) == ~HasPrefix(key)

\* BaseEstimator.set_params: a key is valid when get_params has it, which
\* is when it is in __dict__ (_get_param_names)
ValidParam(key, d) == key = Lr \/ key \in DOMAIN d

\* BaseEstimator.set_params(self, **normal_params): the keys in turn, the
\* first invalid one raises the ValueError
RECURSIVE SetNormal(_, _, _)
SetNormal(st, ks, v) ==
    IF ks = <<>> \/ st.err # "none" THEN st
    ELSE LET key == Head(ks)
         IN  IF ~ValidParam(key, st.attrs)
             THEN [st EXCEPT !.err = "ValueError"]
             ELSE SetNormal(IF key = Lr THEN [st EXCEPT !.lr = v]
                            ELSE [st EXCEPT !.attrs = SetKey(@, key, v)],
                            Tail(ks), v)

\* a setattr loop that accepts every special key
SetSpecialLax(st, ks, v) ==
    IF st.err # "none" THEN st
    ELSE [st EXCEPT !.attrs = [x \in (DOMAIN @) \cup {ks[i] : i \in 1..Len(ks)} |->
                                  IF x \in {ks[i] : i \in 1..Len(ks)} THEN v ELSE @[x]]]

\* set_params, lines 798-802: setattr for the special keys in turn; one
\* that ends with '_' raises the ValueError
RECURSIVE SetSpecial(_, _, _)
SetSpecial(st, ks, v) ==
    IF ks = <<>> \/ st.err # "none" THEN st
    ELSE LET key == Head(ks)
         IN  IF EndsWithUnderscore(key)
             THEN [st EXCEPT !.err = "ValueError"]
             ELSE SetSpecial([st EXCEPT !.attrs = SetKey(@, key, v)], Tail(ks), v)

\* a test that looks at the first special key only
AnyUnderFirst(ks, word) == Len(ks) > 0 /\ StartsWith(ks[1], word)

\* any(key.startswith(word) for key in special_params)
AnyUnder(ks, word) == \E i \in 1..Len(ks) : StartsWith(ks[i], word)

\* set_params, line 812: key.startswith('optimizer')
OptimizerWord == <<"optim", "izer">>

\* NeuralNet.set_params, lines 790-815
SetParams ==
    /\ BeginCall("set_params")
    /\ nparam < MaxParamCalls
    /\ nparam' = nparam + 1
    /\ \E ks \in SetParamsCalls, v \in ParamValues :
         LET special == SelectSeq(ks, HasPrefix)
             st == SetSpecial(SetNormal([attrs |-> attrs, lr |-> lr, err |-> "none"],
                                        SelectSeq(ks, IsNormal), v),
                              special, v)
             crit == AnyUnder(special, <<"criterion">>)
             cbs == AnyUnder(special, <<"callbacks">>)
             mod == AnyUnder(special, <<"module">>)
             opt == AnyUnder(special, OptimizerWord)
         IN  /\ kwargs' = [key \in {ks[i] : i \in 1..Len(ks)} |-> v]
             /\ attrs' = st.attrs
             /\ lr' = st.lr
             /\ UNCHANGED module
             /\ IF st.err # "none"
                THEN /\ exc' = st.err
                     /\ inits' = <<>>
                     /\ UNCHANGED <<cbVars, module_, optim_, criterion_, learned>>
                ELSE /\ IF cbs THEN InitializeCallbacks ELSE UNCHANGED cbVars
                     /\ LET cbok == ~cbs \/ cberr'[1] = "none"
                            o1 == IF crit THEN InitializeCriterion(Objs) ELSE Objs
                            o2 == IF cbok /\ mod
                                  THEN InitializeOptimizer(InitializeModule(o1)) ELSE o1
                            o3 == IF cbok /\ opt /\ o2.err = "none"
                                  THEN InitializeOptimizer(o2) ELSE o2
                        IN  /\ SetObjs(o3)
                            /\ inits' =
                                 (IF crit THEN <<"initialize_criterion">> ELSE <<>>)
                                 \o (IF cbs THEN <<"initialize_callbacks">> ELSE <<>>)
                                 \o (IF cbok /\ mod
                                     THEN <<"initialize_module", "initialize_optimizer">>
                                     ELSE <<>>)
                                 \o (IF cbok /\ opt /\ o2.err = "none"
                                     THEN <<"initialize_optimizer">> ELSE <<>>)
                            /\ exc' = IF ~cbok THEN cberr'[1] ELSE o3.err
    /\ UNCHANGED <<history, histVarsRest, cold_start, max_epochs, nTrain, nValid,
                   dataCfg, initialized_, ctlVars, ncall, nfault, out>>

\* a call that ends at once, with the exception err or without one
Returns(name, err) ==
    /\ Begin(name)
    /\ exc' = err
    /\ inits' = <<>>
    /\ UNCHANGED <<history, cbVars, initialized_, ctlVars, ncall,
                   module_, optim_, criterion_>>

\* save_params and load_params, lines 850 and 875: hasattr(self, 'module_')
HasModule == module_.obj # "unset"

\* NeuralNet.save_params, lines 832-855
SaveParams ==
    /\ Returns("save_params", IF HasModule THEN "none" ELSE "NotInitializedError")
    /\ UNCHANGED <<learned, out>>

\* NeuralNet.load_params, lines 857-880: load_state_dict gives module_ the
\* parameters of the file
LoadParams ==
    /\ Returns("load_params", IF HasModule THEN "none" ELSE "NotInitializedError")
    /\ IF HasModule
       THEN \E state \in BOOLEAN : learned' = [learned EXCEPT ![Trains(module_)] = state]
       ELSE UNCHANGED learned
    /\ UNCHANGED out

\* the largest entry of a row
Max(row) == CHOOSE v \in {row[i] : i \in 1..Len(row)} : \A i \in 1..Len(row) : row[i] <= v

\* numpy argmax of one row: the first index, from 0, of the largest entry
ArgMax(row) ==
    (CHOOSE i \in 1..Len(row) :
        row[i] = Max(row) /\ \A j \in 1..(i - 1) : row[j] < row[i]) - 1

\* y_proba.argmax(1): a vector of one index per row
ArgMax1(p) == [shape |-> "1d", data |-> [i \in 1..Len(p) |-> ArgMax(p[i])]]

\* NeuralNet.predict, lines 707-720, NeuralNetClassifier.predict, lines
\* 931-932, and NeuralNetRegressor, lines 944-983, which defines no predict
\* and inherits the one of NeuralNet
PredictOf(est, p) ==
    CASE est = "NeuralNet" -> ArgMax1(p)
      [] est = "NeuralNetClassifier" -> ArgMax1(p)
      [] est = "NeuralNetRegressor" -> ArgMax1(p)

\* predict: self.module_.train(False), line 719 (line 673 in forward for the
\* classifier), raises the AttributeError when there is no module_
Predict ==
    /\ Returns("predict", IF module_.obj # "unset" THEN "none" ELSE "AttributeError")
    /\ out' = IF module_.obj # "unset" THEN PredictOf(estimator, proba) ELSE out
    /\ UNCHANGED learned

\* the keywords the net of SpecParams was constructed with
ParamAttrsCfg == {EmptyDict, SetKey(EmptyDict, OptimMomentum, 1)}

InitParams ==
    /\ HistoryFresh
    /\ default_callbacks = NeuralNetDefaults
    /\ callbacks \in FitCallbacksCfg
    /\ callbacks_ = <<>>
    /\ cberr = <<"none", "">>
    /\ cbdone = FALSE
    /\ cold_start = FALSE
    /\ max_epochs \in NotifyEpochsCfg
    /\ nTrain \in NotifyTrainBatchesCfg
    /\ nValid = 0
    /\ module \in {"type", "instance"}
    /\ lr = DefaultLr
    /\ attrs \in ParamAttrsCfg
    /\ kwargs = attrs
    /\ nparam = 0
    /\ NetFresh

NextParams ==
    \/ SetParams
    \/ CallInitialize
    \/ PartialFit
    \/ FitLoopBegin
    \/ Step
    \/ RecordLoss
    \/ RecordSize
    \/ NotifyAll

SpecParams == InitParams /\ [][NextParams]_vars

\* configuration calls and the operations that need a module_
NextModule ==
    \/ SetParams
    \/ CallInitialize
    \/ SaveParams
    \/ LoadParams
    \/ Predict

SpecModule == InitParams /\ [][NextModule]_vars

\* the keys of the last set_params call
CallKeys == DOMAIN kwargs

\* some key of the keyword arguments d starts with word
Under(d, word) == \E key \in DOMAIN d : StartsWith(key, word)

\* the step is a set_params call
IsSetParams == lastCall' = "set_params" /\ nparam' = nparam + 1

(***************************************************************************)
(* C16.  A set_params call whose keys are all module__ parameters runs     *)
(* initialize_module once, then initialize_optimizer once, and no other    *)
(* initialize_* method: module_ is a new module built with the module__    *)
(* parameters, optim_ is rebuilt, criterion_ and callbacks_ are kept.      *)
(***************************************************************************)
C16_ModuleParams ==
    [][(IsSetParams /\ DOMAIN kwargs' # {}
           /\ \A key \in DOMAIN kwargs' : StartsWith(key, <<"module", "__">>)) =>
          /\ exc' = "none"
          /\ inits' = <<"initialize_module", "initialize_optimizer">>
          /\ module_'.obj = "new"
          /\ module_'.kwargs = GetParamsFor(attrs', <<"module">>)
          /\ \A key \in DOMAIN kwargs' : attrs'[key] = kwargs'[key]
          /\ optim_'.set
          /\ criterion_' = criterion_
          /\ callbacks_' = callbacks_]_vars

C16_Witness ==
    /\ lastCall = "set_params"
    /\ pc = "idle"
    /\ CallKeys = {ModuleNumUnits, ModuleNonlin}
    /\ inits = <<"initialize_module", "initialize_optimizer">>
    /\ initialized_
    /\ module_.kwargs[<<"nonlin">>] = 2

(***************************************************************************)
(* C17.  A set_params call that returns re-initializes what its keys       *)
(* select and nothing else: the criterion for a key under criterion, the   *)
(* callbacks for a key under callbacks, the module and the optimizer for a *)
(* key under module, the optimizer for a key under optimizer, and nothing  *)
(* for iterator_train, iterator_test and plain keys.  (Calls with a key    *)
(* under optim that is not under optimizer are left to C18.)               *)
(***************************************************************************)
C17_RoutingFrame ==
    [][(/\ IsSetParams
        /\ exc' = "none"
        /\ \A key \in DOMAIN kwargs' :
               StartsWith(key, <<"optim">>) => StartsWith(key, <<"optim", "izer">>)) =>
          LET d == kwargs'
              crit == Under(d, <<"criterion">>)
              cbs == Under(d, <<"callbacks">>)
              mod == Under(d, <<"module">>)
              opt == Under(d, <<"optim", "izer">>)
          IN  /\ inits' = (IF crit THEN <<"initialize_criterion">> ELSE <<>>)
                          \o (IF cbs THEN <<"initialize_callbacks">> ELSE <<>>)
                          \o (IF mod THEN <<"initialize_module", "initialize_optimizer">>
                              ELSE <<>>)
                          \o (IF opt THEN <<"initialize_optimizer">> ELSE <<>>)
              /\ ~crit => criterion_' = criterion_
              /\ ~cbs => callbacks_' = callbacks_
              /\ ~mod => module_' = module_
              /\ ~(mod \/ opt) => optim_' = optim_
              /\ crit => criterion_'.kwargs = GetParamsFor(attrs', <<"criterion">>)
              /\ opt => optim_'.set
              /\ history' = history
              /\ initialized_' = initialized_]_vars

C17_Witness ==
    /\ lastCall = "set_params"
    /\ pc = "idle"
    /\ exc = "none"
    /\ CallKeys = {CallbacksPrintLogSink, ModuleNumUnits}
    /\ inits = <<"initialize_callbacks", "initialize_module", "initialize_optimizer">>
    /\ initialized_
    /\ Len(history) = 1

(***************************************************************************)
(* C18.  Optimizer parameters can be changed later: whenever a training    *)
(* step runs, the optimizer optim_ it uses is configured with the value of *)
(* optim__momentum that was set last.                                      *)
(***************************************************************************)
C18_OptimParamsApply ==
    (pc = "train_step" /\ OptimMomentum \in DOMAIN attrs) =>
        /\ optim_.set
        /\ <<"momentum">> \in DOMAIN optim_.kwargs
        /\ optim_.kwargs[<<"momentum">>] = attrs[OptimMomentum]

(***************************************************************************)
(* C20.  On a net whose initialize() has not completed (initialized_ is    *)
(* false), whatever set_params calls came before, save_params and          *)
(* load_params raise NotInitializedError, predict fails, and none of the   *)
(* three changes the net.                                                  *)
(***************************************************************************)
C20_UninitializedOps ==
    [][(~initialized_ /\ lastCall' \in {"save_params", "load_params", "predict"}) =>
          /\ lastCall' \in {"save_params", "load_params"} => exc' = "NotInitializedError"
          /\ lastCall' = "predict" => exc' # "none"
          /\ UNCHANGED <<module_, optim_, criterion_, learned, history, callbacks_,
                         attrs, initialized_>>]_vars

(***************************************************************************)
(* The constructor: NeuralNet(module, criterion, **kwargs) with the extra  *)
(* keywords kwargs.  pc is "new" before __init__ runs, "idle" when it      *)
(* returned and "failed" when it raised; kwargs keeps the keywords of the  *)
(* call, attrs the keywords that vars(self).update stored.                 *)
(***************************************************************************)
MaxCtorKeys == 2

HistoryKey == <<"history">>

InitializedKey == <<"initialized", "_">>

FooUnderscore == <<"foo", "_">>

PrefixesUnderscore == <<"prefixes", "_">>

\* the names the extra keywords are drawn from
CtorKeys ==
    << ModuleNumUnits, OptimMomentum, IteratorTrainBatchSize, Foo, FooUnderscore,
       PrefixesUnderscore, HistoryKey, InitializedKey >>

\* the values a keyword is given: a History with one Epoch Record for
\* history, a flag for initialized_
CtorValues(key) ==
    IF key = HistoryKey THEN {<<NewEpochRecord>>}
    ELSE IF key = InitializedKey THEN BOOLEAN
    ELSE {1, 2}

RECURSIVE CtorDicts(_)
CtorDicts(ks) ==
    IF ks = <<>> THEN {EmptyDict}
    ELSE LET rest == CtorDicts(Tail(ks))
         IN  rest \cup UNION { {SetKey(d, Head(ks), v) : v \in CtorValues(Head(ks))} :
                               d \in rest }

CtorKwargs == {d \in CtorDicts(CtorKeys) : Cardinality(DOMAIN d) <= MaxCtorKeys}

\* kwargs.pop(key, ...), lines 358-359: the keywords left
Pop(d, key) == [x \in (DOMAIN d) \ {key} |-> d[x]]

\* hasattr(self, key) in __init__, line 362: the class attributes; the
\* declared parameters assigned in lines 342-355 cannot be in kwargs
HasAttr(key) == key \in {PrefixesUnderscore, <<"default_callbacks">>}

\* a constructor that checks no prefix
HasPrefixAny(key) == TRUE

\* key_has_prefix, line 363
KeyHasPrefix(key) == \E prefix \in prefixes_ : StartsWith(key, prefix)

\* NeuralNet.__init__, lines 358-368
Construct ==
    /\ pc = "new"
    /\ LET rest == Pop(Pop(kwargs, HistoryKey), InitializedKey)
           ok == \A key \in DOMAIN rest :
                     /\ ~HasAttr(key)
                     /\ EndsWithUnderscore(key) \/ KeyHasPrefix(key)
       IN  IF ok
           THEN /\ attrs' = rest
                /\ history' = IF HistoryKey \in DOMAIN kwargs THEN kwargs[HistoryKey]
                              ELSE <<>>
                /\ initialized_' = IF InitializedKey \in DOMAIN kwargs
                                   THEN kwargs[InitializedKey] ELSE FALSE
                /\ pc' = "idle"
                /\ exc' = "none"
           ELSE /\ pc' = "failed"
                /\ exc' = "AssertionError"
                /\ UNCHANGED <<attrs, history, initialized_>>
    /\ UNCHANGED <<histVarsRest, cbVars, cold_start, max_epochs, nTrain, nValid, module,
                   lr, kwargs, nparam, dataCfg, objVars, hook, train, rcv, epoch, batch,
                   split, lastCall, ncall, nfault, ghostVars, fitGhost, callVars>>

\* the call NeuralNet(module, criterion, **kwargs) about to run
InitCtor ==
    /\ HistoryFresh
    /\ default_callbacks = NeuralNetDefaults
    /\ callbacks = <<>>
    /\ callbacks_ = <<>>
    /\ cberr = <<"none", "">>
    /\ cbdone = FALSE
    /\ cold_start = TRUE
    /\ max_epochs = 1
    /\ nTrain = 1
    /\ nValid = 0
    /\ module = "type"
    /\ lr = DefaultLr
    /\ attrs = EmptyDict
    /\ kwargs \in CtorKwargs
    /\ nparam = 0
    /\ pc = "new"
    /\ NetRest
    /\ DataDefault

NextCtor == Construct

SpecCtor == InitCtor /\ [][NextCtor]_vars

\* the keyword is an attribute of the net under its own name
Stored(key) ==
    IF key = HistoryKey THEN history = kwargs[key]
    ELSE IF key = InitializedKey THEN initialized_ = kwargs[key]
    ELSE key \in DOMAIN attrs /\ attrs[key] = kwargs[key]

\* the name neither ends with '_' nor starts with one of the six prefixes
Unmarked(key) ==
    /\ ~EndsWithUnderscore(key)
    /\ \A prefix \in {<<"module">>, <<"iterator_train">>, <<"iterator_test">>,
                      <<"optim">>, <<"criterion">>, <<"callbacks">>} :
           ~StartsWith(key, prefix)

(***************************************************************************)
(* C19 as stated.  A constructor call with an extra keyword whose name     *)
(* neither ends with '_' nor starts with one of the prefixes fails with    *)
(* the AssertionError, and every extra keyword of a call that returns is   *)
(* stored under its own name.                                              *)
(***************************************************************************)
C19_ExtraKeywords ==
    pc # "new" =>
        /\ (\E key \in DOMAIN kwargs : Unmarked(key)) => exc = "AssertionError"
        /\ exc = "none" => \A key \in DOMAIN kwargs : Stored(key)

(***************************************************************************)
(* C19, amended.  A constructor call with an extra keyword other than      *)
(* history whose name neither ends with '_' nor starts with one of the     *)
(* prefixes fails with the AssertionError, and every extra keyword of a    *)
(* call that returns is stored under its own name.                         *)
(***************************************************************************)
C19_ExtraKeywordsButHistory ==
    pc # "new" =>
        /\ (\E key \in DOMAIN kwargs : key # HistoryKey /\ Unmarked(key)) =>
               exc = "AssertionError"
        /\ exc = "none" => \A key \in DOMAIN kwargs : Stored(key)

C19_Witness ==
    /\ pc = "failed"
    /\ exc = "AssertionError"
    /\ DOMAIN kwargs = {Foo, ModuleNumUnits}

(***************************************************************************)
(* predict on its own: the three classes of net, initialized or not, and   *)
(* the output of predict_proba for the X of the call.                      *)
(***************************************************************************)
\* the scores of one sample over two classes
ProbaRows == {<<0, 1>>, <<1, 0>>, <<1, 1>>, <<2, 1>>}

\* predict_proba for one or two samples
ProbaCfg == {<<row>> : row \in ProbaRows} \cup {<<r1, r2>> : r1 \in ProbaRows, r2 \in ProbaRows}

EstimatorCfg == {"NeuralNet", "NeuralNetClassifier", "NeuralNetRegressor"}

InitPredict ==
    /\ HistoryFresh
    /\ default_callbacks = NeuralNetDefaults
    /\ callbacks = <<>>
    /\ callbacks_ = <<>>
    /\ cberr = <<"none", "">>
    /\ cbdone = FALSE
    /\ cold_start = TRUE
    /\ max_epochs = 1
    /\ nTrain = 1
    /\ nValid = 0
    /\ CfgDefault
    /\ estimator \in EstimatorCfg
    /\ iterator_train = "DataLoader"
    /\ yarg = "2d"
    /\ cv = <<>>
    /\ proba \in ProbaCfg
    /\ pc = "idle"
    /\ NetRest

NextPredict ==
    \/ CallInitialize
    \/ Predict

SpecPredict == InitPredict /\ [][NextPredict]_vars

(***************************************************************************)
(* C22.  predict dispatch: what predict returns is, for the regression     *)
(* estimator, the raw output of the forward pass, and for the others one   *)
(* index per sample, that of a largest entry of its row of predict_proba.  *)
(***************************************************************************)
C22_PredictDispatch ==
    (lastCall = "predict" /\ exc = "none") =>
        IF estimator = "NeuralNetRegressor"
        THEN out.shape = "2d" /\ out.data = proba
        ELSE /\ out.shape = "1d"
             /\ Len(out.data) = Len(proba)
             /\ \A i \in 1..Len(proba) :
                    /\ out.data[i] \in 0..(Len(proba[i]) - 1)
                    /\ proba[i][out.data[i] + 1] = Max(proba[i])

(***************************************************************************)
(* Training and prediction without faults: fit, partial_fit and predict    *)
(* calls in any order.                                                     *)
(***************************************************************************)
InitSteps ==
    /\ HistoryFresh
    /\ default_callbacks = NeuralNetDefaults
    /\ callbacks = <<>>
    /\ callbacks_ = <<>>
    /\ cberr = <<"none", "">>
    /\ cbdone = FALSE
    /\ cold_start \in BOOLEAN
    /\ max_epochs \in EpochsCfg
    /\ nTrain \in TrainBatchesCfg
    /\ nValid \in ValidBatchesCfg
    /\ CfgDefault
    /\ NetFresh

NextSteps ==
    \/ Fit
    \/ PartialFit
    \/ FitLoopBegin
    \/ Step
    \/ RecordLoss
    \/ RecordSize
    \/ NotifyAll
    \/ Predict

SpecSteps == InitSteps /\ [][NextSteps]_vars

\* how many events ev the current call has made
Count(ev) == Len(SelectSeq(trace, LAMBDA e : e.ev = ev))

\* the event at position i of the trace, "" beyond its end
EvAt(i) == IF i \in 1..Len(trace) THEN trace[i].ev ELSE ""

(***************************************************************************)
(* C26.  Parameter updates happen only in training batches: every          *)
(* train_step makes one zero_grad and one step of the optimizer, nothing   *)
(* else makes any, a validation_step and a predict call leave the learned  *)
(* parameters alone, and when a fit returns the optimizer has made         *)
(* max_epochs times the number of training mini-batches steps.             *)
(***************************************************************************)
C26_UpdatesOnlyInTraining ==
    /\ [](/\ \A i \in 1..Len(trace) :
                /\ trace[i].ev = "train_step" =>
                       EvAt(i + 1) = "zero_grad" /\ EvAt(i + 2) = "step"
                /\ trace[i].ev = "zero_grad" => EvAt(i - 1) = "train_step"
                /\ trace[i].ev = "step" => EvAt(i - 2) = "train_step"
          /\ Count("step") = nsteps
          /\ (pc = "idle" /\ lastCall = "fit" /\ exc = "none") =>
                 Count("step") = max_epochs * split.train)
    /\ [][/\ pc = "validation_step" => learned' = learned /\ nsteps' = nsteps
          /\ lastCall' = "predict" =>
                 learned' = learned /\ Count("step")' = 0 /\ Count("zero_grad")' = 0]_vars

C26_Witness ==
    /\ pc = "idle" /\ lastCall = "fit" /\ exc = "none"
    /\ max_epochs = 2
    /\ split = [train |-> 2, valid |-> 1]
    /\ Count("step") = 4
    /\ Count("zero_grad") = 4
    /\ Count("validation_step") = 2
    /\ learned.own

(***************************************************************************)
(* The data of a fit: the three classes of net, the y of the call, the     *)
(* training iterator and the splits the generator of train_split yields.   *)
(***************************************************************************)
\* no train_split, a generator of one split, a generator of two splits
CvCfg ==
    { <<>>,
      <<[train |-> 1, valid |-> 1]>>,
      <<[train |-> 2, valid |-> 1], [train |-> 1, valid |-> 2]>> }

InitData ==
    /\ HistoryFresh
    /\ default_callbacks = NeuralNetDefaults
    /\ callbacks = <<>>
    /\ callbacks_ = <<>>
    /\ cberr = <<"none", "">>
    /\ cbdone = FALSE
    /\ cold_start = TRUE
    /\ max_epochs \in EpochsCfg
    /\ nTrain \in TrainBatchesCfg
    /\ nValid = 0
    /\ CfgDefault
    /\ estimator \in EstimatorCfg
    /\ iterator_train \in {"DataLoader", "custom"}
    /\ yarg \in {"none", "1d", "2d"}
    /\ cv \in CvCfg
    /\ proba = <<>>
    /\ pc = "idle"
    /\ NetRest

NextData ==
    \/ Fit
    \/ PartialFit
    \/ FitLoopBegin
    \/ Step
    \/ RecordLoss
    \/ RecordSize
    \/ NotifyAll

SpecData == InitData /\ [][NextData]_vars

\* the position of the first event ev of the trace, 0 if there is none
First(ev) ==
    IF Count(ev) = 0 THEN 0
    ELSE CHOOSE i \in 1..Len(trace) :
             trace[i].ev = ev /\ \A j \in 1..(i - 1) : trace[j].ev # ev

\* the Epoch Records the current call appended
Appended == {i \in 1..Len(history) : i > Len(history) - appended}

(***************************************************************************)
(* C27.  The splitter: with a train_split, every call that reaches the     *)
(* epochs has invoked it exactly once, before the first on_epoch_begin,    *)
(* and trains and validates on the subsets of the first split of the       *)
(* generator in every epoch; without one the splitter is never invoked,    *)
(* all data is training data and no validation batch is processed.         *)
(***************************************************************************)
C27_OneFixedSplit ==
    /\ Count("train_split") <= 1
    /\ Count("on_epoch_begin") > 0 =>
          IF cv # <<>>
          THEN /\ Count("train_split") = 1
               /\ First("train_split") < First("on_epoch_begin")
               /\ split = cv[1]
          ELSE /\ Count("train_split") = 0
               /\ split = [train |-> nTrain, valid |-> 0]
               /\ Count("validation_step") = 0
               /\ \A i \in 1..Len(trace) : trace[i].ev = "on_batch_begin" => trace[i].train
    /\ (pc = "idle" /\ lastCall \in {"fit", "partial_fit"} /\ exc = "none") =>
          LET first == IF cv # <<>> THEN cv[1] ELSE [train |-> nTrain, valid |-> 0]
          IN  /\ Count("train_step") = max_epochs * first.train
              /\ Count("validation_step") = max_epochs * first.valid
              /\ \A i \in Appended : Len(history[i].batches) = first.train + first.valid

C27_Witness ==
    /\ pc = "idle" /\ lastCall = "fit" /\ exc = "none"
    /\ Len(cv) = 2
    /\ max_epochs = 2
    /\ Count("train_split") = 1
    /\ Count("train_step") = 4
    /\ Count("validation_step") = 2
    /\ Len(history[2].batches) = 3

\* check_data rejects the data of the call, as C28 lists the cases
Rejected ==
    \/ /\ estimator \in {"NeuralNetClassifier", "NeuralNetRegressor"}
       /\ yarg = "none"
       /\ iterator_train = "DataLoader"
    \/ estimator = "NeuralNetRegressor" /\ yarg = "1d"

(***************************************************************************)
(* C28.  Data validation: when check_data rejects the data, the call ends  *)
(* with the ValueError as soon as fit_loop has called check_data: the      *)
(* splitter is not invoked, no Epoch Record is appended, no epoch or batch *)
(* hook is notified and no training step runs.                             *)
(***************************************************************************)
C28_CheckDataFirst ==
    (Rejected /\ Count("check_data") > 0) =>
        /\ pc = "idle"
        /\ exc = "ValueError"
        /\ trace = <<Event("on_train_begin", FALSE), Event("check_data", FALSE)>>
        /\ appended = 0
        /\ nsteps = 0

C28_Witness ==
    /\ estimator = "NeuralNetRegressor"
    /\ yarg = "1d"
    /\ Len(cv) = 2
    /\ lastCall = "fit"
    /\ initialized_
    /\ pc = "idle"
    /\ exc = "ValueError"
    /\ Count("check_data") = 1

\* the key starts with one of the six prefixes and ends with '_'
SpecialDerived(key) ==
    /\ EndsWithUnderscore(key)
    /\ \E prefix \in {<<"module">>, <<"iterator_train">>, <<"iterator_test">>,
                      <<"optim">>, <<"criterion">>, <<"callbacks">>} :
           StartsWith(key, prefix)

(***************************************************************************)
(* C29.  A set_params call with a special key that ends with '_' raises    *)
(* the ValueError and runs no initialize_* method: criterion_, callbacks_,  *)
(* module_ and optim_ are the objects they were.                           *)
(***************************************************************************)
C29_DerivedKeyRejected ==
    [][(IsSetParams /\ \E key \in DOMAIN kwargs' : SpecialDerived(key)) =>
          /\ exc' = "ValueError"
          /\ inits' = <<>>
          /\ UNCHANGED <<criterion_, callbacks_, module_, optim_, learned>>]_vars

C29_Witness ==
    /\ lastCall = "set_params"
    /\ pc = "idle"
    /\ exc = "ValueError"
    /\ CallKeys = {ModuleNumUnits, CriterionUnderscore}
    /\ inits = <<>>
    /\ initialized_
    /\ module_.kwargs = EmptyDict

(***************************************************************************)
(* C30.  While the last call has raised nothing, a module_ that exists     *)
(* comes with an optimizer optim_ built from the parameters of the object  *)
(* module_ refers to: initialize and set_params call initialize_optimizer  *)
(* after every initialize_module, before they return.                      *)
(***************************************************************************)
C30_OptimizerOfModule ==
    (exc = "none" /\ module_.obj # "unset") =>
        /\ optim_.set
        /\ optim_.params = "module_"

\* set_params has rebuilt the module of an initialized net, and training
\* goes on with the new pair
C30_Witness ==
    /\ prior.call = "set_params"
    /\ prior.clean
    /\ "initialize_module" \in {prior.inits[i] : i \in 1..Len(prior.inits)}
    /\ lastCall = "partial_fit"
    /\ inits = <<>>
    /\ nsteps > 0
    /\ exc = "none"
    /\ module_.obj = "new"
    /\ optim_.params = "module_"

(***************************************************************************)
(* initialize, fit and partial_fit on a net whose callback names may       *)
(* collide, after set_params calls that may have built some components.    *)
(***************************************************************************)
InitInitialize ==
    /\ HistoryFresh
    /\ default_callbacks = NeuralNetDefaults
    /\ callbacks \in FitCallbacksCfg
    /\ callbacks_ = <<>>
    /\ cberr = <<"none", "">>
    /\ cbdone = FALSE
    /\ cold_start \in BOOLEAN
    /\ max_epochs \in NotifyEpochsCfg
    /\ nTrain \in NotifyTrainBatchesCfg
    /\ nValid = 0
    /\ module \in {"type", "instance"}
    /\ lr = DefaultLr
    /\ attrs = EmptyDict
    /\ kwargs = attrs
    /\ nparam = 0
    /\ NetFresh

NextInitialize ==
    \/ SetParams
    \/ CallInitialize
    \/ Fit
    \/ PartialFit
    \/ FitLoopBegin
    \/ Step
    \/ RecordLoss
    \/ RecordSize
    \/ NotifyAll

SpecInitialize == InitInitialize /\ [][NextInitialize]_vars

\* the step is a call of initialize, fit or partial_fit whose
\* initialize_callbacks raises
InitializeFails ==
    /\ pc = "idle"
    /\ lastCall' \in {"initialize", "fit", "partial_fit"}
    /\ cberr'[1] = "ValueError"

=============================================================================
